---------------------------- MODULE Spec2Model ----------------------------
(***************************************************************************)
(* A model of the Go Virtual Machine: the lexer (lexer.go), the parser     *)
(* (parser.go), the bytecode instructions (instructions.go), the           *)
(* interpreter (interpreter.go) and the orchestrator (vm.go).              *)
(*                                                                         *)
(* A source line is a sequence of one-character strings.  Go indexes the   *)
(* input from 0 and TLA+ sequences from 1, so Input[Position] of the code  *)
(* is lex.Input[lex.Position + 1] here.                                    *)
(***************************************************************************)
EXTENDS Integers, Sequences, FiniteSets, TLC

VARIABLES
    lex,        \* the Lexer object: Input, Position, CurrentChar
    tok,        \* the token returned by the last GetNextToken call
    lexErr,     \* the error returned by the last GetNextToken call
    prevLex,    \* history: the Lexer as it was when the last call began
    file,       \* the program file: a sequence of source lines
    scanned,    \* number of lines the scanner has produced so far
    Code,       \* VirtualMemory.Code, the code block (a slice of INIT slots)
    CodeSize,   \* VirtualMemory.CodeSize
    Registers,  \* VirtualMemory.Registers, shared with the interpreter
    PC,         \* Interpreter.PC
    lastAddr,   \* the local lastAddr of Interpret
    pos,        \* the position of Execute / Interpret in their code
    err,        \* the error Execute returns (NoError while none)
    out,        \* everything written to the text output sink, in order
    trace,      \* history: one record per dispatched instruction: its
                \* address, the instruction, the registers and the output
                \* before it, and the error its routine ended with
    r0Writes,   \* history: number of stores into Registers[0]
    runs        \* history: one record per Execute call that has returned
                \* since the process started: the file, the output, the
                \* registers and the error of the run

lexVars == <<lex, tok, lexErr, prevLex>>
vmVars  == <<file, scanned, Code, CodeSize, Registers, PC, lastAddr, pos,
             err, out, trace, r0Writes, runs>>
vars    == <<lex, tok, lexErr, prevLex, file, scanned, Code, CodeSize,
             Registers, PC, lastAddr, pos, err, out, trace, r0Writes, runs>>

---------------------------------------------------------------------------
(* Bounds of the model. *)

\* number of pieces a lexer input line is built from
MaxPieces == 3
\* number of lines of the enumerated short programs
MaxLines == 3

---------------------------------------------------------------------------
(* Characters and the unicode predicates the lexer uses, over ASCII. *)

NUL == "NUL"    \* the byte 0, the lexer's end-of-input sentinel

Digits == {"0", "1", "2", "3", "4", "5", "6", "7", "8", "9"}

UpperLetters ==
    {"A", "B", "C", "D", "E", "F", "G", "H", "I", "J", "K", "L", "M",
     "N", "O", "P", "Q", "R", "S", "T", "U", "V", "W", "X", "Y", "Z"}

LowerLetters ==
    {"a", "b", "c", "d", "e", "f", "g", "h", "i", "j", "k", "l", "m",
     "n", "o", "p", "q", "r", "s", "t", "u", "v", "w", "x", "y", "z"}

IsSpace(c) == c \in {" ", "\t", "\n", "\r"}
IsDigit(c) == c \in Digits
IsUpper(c) == c \in UpperLetters
IsLower(c) == c \in LowerLetters
\* no character is punctuation; not the code's
IsPunct_None(c) == FALSE
IsPunct(c) == c \in {"!", "#", "%", "&", "'", "(", ")", "*", ",", "-", ".",
                     "/", ":", ";", "?", "@", "[", "]", "_", "{", "}"}
IsSymbol(c) == c \in {"$", "+", "<", "=", ">", "^", "|", "~"}
ToLower(c) ==
    IF c \in UpperLetters
    THEN CHOOSE l \in LowerLetters :
           \E i \in 1..26 :
              /\ <<"A", "B", "C", "D", "E", "F", "G", "H", "I", "J", "K",
                   "L", "M", "N", "O", "P", "Q", "R", "S", "T", "U", "V",
                   "W", "X", "Y", "Z">>[i] = c
              /\ <<"a", "b", "c", "d", "e", "f", "g", "h", "i", "j", "k",
                   "l", "m", "n", "o", "p", "q", "r", "s", "t", "u", "v",
                   "w", "x", "y", "z">>[i] = l
    ELSE c

DigitValue(c) ==
    CASE c = "0" -> 0 [] c = "1" -> 1 [] c = "2" -> 2 [] c = "3" -> 3
      [] c = "4" -> 4 [] c = "5" -> 5 [] c = "6" -> 6 [] c = "7" -> 7
      [] c = "8" -> 8 [] c = "9" -> 9

---------------------------------------------------------------------------
(* 32-bit signed integers. *)

MaxInt32 == 2147483647
MinInt32 == -2147483647 - 1

\* an addition that stops at the ends of the range; not the code's
AddInt32_Saturating(a, b) ==
    IF b > 0 /\ a > MaxInt32 - b THEN MaxInt32
    ELSE IF b < 0 /\ a < MinInt32 - b THEN MinInt32
    ELSE a + b

\* a + b as Go computes it on int32 operands: wrapped modulo 2^32
AddInt32(a, b) ==
    IF b > 0 /\ a > MaxInt32 - b THEN (a + MinInt32) + (b + MinInt32)
    ELSE IF b < 0 /\ a < MinInt32 - b THEN (a - MinInt32) + (b - MinInt32)
    ELSE a + b

\* strconv.ParseInt(s, 10, 32) on a string of decimal digits:
\* the value, or a syntax error on the empty string, or a range error
RECURSIVE ParseDigits(_, _)
ParseDigits(s, acc) ==
    IF s = <<>> THEN [val |-> acc, ok |-> TRUE]
    ELSE LET d == DigitValue(Head(s)) IN
         IF acc > (MaxInt32 - d) \div 10
         THEN [val |-> 0, ok |-> FALSE]
         ELSE ParseDigits(Tail(s), acc * 10 + d)

\* a conversion that answers MaxInt32 for every larger value; not the code's
ParseInt_Saturating(s) ==
    IF s = <<>> THEN [val |-> 0, ok |-> FALSE]
    ELSE LET r == ParseDigits(s, 0) IN
         IF r.ok THEN r ELSE [val |-> MaxInt32, ok |-> TRUE]

ParseInt(s) ==
    IF s = <<>> THEN [val |-> 0, ok |-> FALSE] ELSE ParseDigits(s, 0)

---------------------------------------------------------------------------
(* Errors: one value per error message of the code. *)

NoError == "nil"
ErrIntDelimiter    == "gvm: syntax error: unexpected INT (missing delimiter)"
ErrConvert         == "gvm: lexer: failed to convert input to integer"
ErrRegDelimiter    == "gvm: unexpected REG (missing delimiter)"
ErrMissingRegIndex == "gvm: missing register index."
ErrRegRange        == "gvm: register indices must be between 0 and 9."
ErrCommandLength   == "gvm: invalid command: max length reached (10)."
ErrShapeDelimiter  == "gvm: shape declaration must be preceded by ' '"
ErrShapeLength     == "gvm: invalid shape."
ErrMissingShape    == "gvm: missing shape after '$'"
ErrUnknownShape    == "gvm: invalid shape: '%s'"
ErrCase            == "gvm: input is case sensitive: invalid '%c'"
ErrInvalidChar     == "gvm: invalid character: %c"
ErrUndefined       == "gvm: undefined: '%s'."
ErrUnrecognized    == "gvm: unrecognized symbol '%c'"

---------------------------------------------------------------------------
(* Tokens (token.go). *)

TokenNew(tokenType, value) == [TokenType |-> tokenType, Value |-> value]
NilToken == [TokenType |-> "nil", Value |-> 0]

---------------------------------------------------------------------------
(* The lexer (lexer.go).  Each method is an operator from the Lexer it is  *)
(* called on to the Lexer it leaves behind, with what it returns.          *)

LexerNew(input) ==
    [Input |-> input, Position |-> 0,
     CurrentChar |-> IF Len(input) > 0 THEN input[1] ELSE NUL]

\* a GetNextChar that moves by two characters; not the code's
GetNextChar_ByTwo(l) ==
    LET p == l.Position + 2 IN
    [l EXCEPT !.Position = p,
              !.CurrentChar = IF p > Len(l.Input) - 1 THEN NUL
                              ELSE l.Input[p + 1]]

\* a GetNextChar with no end-of-input sentinel; not the code's
GetNextChar_NoEnd(l) ==
    LET p == l.Position + 1 IN
    [l EXCEPT !.Position = p,
              !.CurrentChar = IF p > Len(l.Input) - 1 THEN "."
                              ELSE l.Input[p + 1]]

GetNextChar(l) ==
    LET p == l.Position + 1 IN
    [l EXCEPT !.Position = p,
              !.CurrentChar = IF p > Len(l.Input) - 1 THEN NUL
                              ELSE l.Input[p + 1]]

RECURSIVE IgnoreWhiteSpace(_)
IgnoreWhiteSpace(l) ==
    IF l.CurrentChar # NUL /\ IsSpace(l.CurrentChar)
    THEN IgnoreWhiteSpace(GetNextChar(l))
    ELSE l

\* a Delimiter that also accepts the start of the line; not the code's,
\* kept to show what the properties of Delimiter rest on
Delimiter_StartOfLine(l) ==
    IF l.Position > 0
    THEN LET previousChar == l.Input[l.Position] IN
         previousChar = " " \/ previousChar = ","
    ELSE TRUE

\* a Delimiter that accepts a comma only; not the code's
Delimiter_CommaOnly(l) ==
    IF l.Position > 0
    THEN l.Input[l.Position] = ","
    ELSE FALSE

\* a Delimiter that takes any white space for a delimiter; not the code's
Delimiter_AnySpace(l) ==
    IF l.Position > 0
    THEN LET previousChar == l.Input[l.Position] IN
         IsSpace(previousChar) \/ previousChar = ","
    ELSE FALSE

Delimiter(l) ==
    IF l.Position > 0
    THEN LET previousChar == l.Input[l.Position] IN
         previousChar = " " \/ previousChar = ","
    ELSE FALSE

Register(l) ==
    IF l.Position > 0
    THEN LET previousChar == l.Input[l.Position] IN
         previousChar = "r" \/ previousChar = "R"
    ELSE FALSE

\* the digit-collecting loop of Integer
RECURSIVE IntegerLoop(_, _)
IntegerLoop(l, integerString) ==
    IF l.CurrentChar # NUL /\ IsDigit(l.CurrentChar)
    THEN IntegerLoop(GetNextChar(l), Append(integerString, l.CurrentChar))
    ELSE [lex |-> l, str |-> integerString]

Integer(l) ==
    IF ~Register(l) /\ ~Delimiter(l)
    THEN [lex |-> l, val |-> 0, err |-> ErrIntDelimiter]
    ELSE LET r == IntegerLoop(l, <<>>)
             integer == ParseInt(r.str)
         IN  IF ~integer.ok
             THEN [lex |-> r.lex, val |-> 0, err |-> ErrConvert]
             ELSE [lex |-> r.lex, val |-> integer.val, err |-> NoError]

\* a RegisterIndex with no test of the index against 9; not the code's
RegisterIndex_NoRange(l) ==
    IF ~Delimiter(l)
    THEN [lex |-> l, val |-> 0, err |-> ErrRegDelimiter]
    ELSE LET l1 == GetNextChar(l) IN
         IF IsSpace(l1.CurrentChar)
         THEN [lex |-> l1, val |-> 0, err |-> ErrMissingRegIndex]
         ELSE Integer(l1)

\* a RegisterIndex that accepts the index 10; not the code's
RegisterIndex_Upto10(l) ==
    IF ~Delimiter(l)
    THEN [lex |-> l, val |-> 0, err |-> ErrRegDelimiter]
    ELSE LET l1 == GetNextChar(l) IN
         IF IsSpace(l1.CurrentChar)
         THEN [lex |-> l1, val |-> 0, err |-> ErrMissingRegIndex]
         ELSE LET r == Integer(l1) IN
              IF r.err # NoError THEN r
              ELSE IF r.val > 10
              THEN [lex |-> r.lex, val |-> 0, err |-> ErrRegRange]
              ELSE r

RegisterIndex(l) ==
    IF ~Delimiter(l)
    THEN [lex |-> l, val |-> 0, err |-> ErrRegDelimiter]
    ELSE LET l1 == GetNextChar(l) IN
         IF IsSpace(l1.CurrentChar)
         THEN [lex |-> l1, val |-> 0, err |-> ErrMissingRegIndex]
         ELSE LET r == Integer(l1) IN
              IF r.err # NoError THEN r
              ELSE IF r.val > 9
              THEN [lex |-> r.lex, val |-> 0, err |-> ErrRegRange]
              ELSE r

\* a Command of at most 5 letters, as its comment has it; not the code's
RECURSIVE CommandLoop_Max5(_, _)
CommandLoop_Max5(l, builder) ==
    IF l.CurrentChar # NUL /\ IsUpper(l.CurrentChar)
    THEN IF Len(builder) > 4
         THEN [lex |-> l, str |-> <<>>, err |-> ErrCommandLength]
         ELSE CommandLoop_Max5(GetNextChar(l),
                               Append(builder, l.CurrentChar))
    ELSE [lex |-> l, str |-> builder, err |-> NoError]

RECURSIVE CommandLoop(_, _)
CommandLoop(l, builder) ==
    IF l.CurrentChar # NUL /\ IsUpper(l.CurrentChar)
    THEN IF Len(builder) > 10
         THEN [lex |-> l, str |-> <<>>, err |-> ErrCommandLength]
         ELSE CommandLoop(GetNextChar(l), Append(builder, l.CurrentChar))
    ELSE [lex |-> l, str |-> builder, err |-> NoError]

Command(l) == CommandLoop(l, <<>>)

RECURSIVE ShapeLoop(_, _)
ShapeLoop(l, builder) ==
    IF l.CurrentChar # NUL /\ IsLower(l.CurrentChar)
    THEN IF Len(builder) > 6
         THEN [lex |-> l, str |-> <<>>, err |-> ErrShapeLength]
         ELSE ShapeLoop(GetNextChar(l), Append(builder, l.CurrentChar))
    ELSE IF Len(builder) = 0
         THEN [lex |-> l, str |-> <<>>, err |-> ErrMissingShape]
         ELSE [lex |-> l, str |-> builder, err |-> NoError]

\* a Shape that asks for no delimiter; not the code's
Shape_NoDelimiter(l) == ShapeLoop(GetNextChar(l), <<>>)

Shape(l) ==
    IF ~Delimiter(l)
    THEN [lex |-> l, str |-> <<>>, err |-> ErrShapeDelimiter]
    ELSE ShapeLoop(GetNextChar(l), <<>>)

Mnemonics ==
    {<<"L", "D", "I">>, <<"S", "T", "D", "O", "U", "T">>,
     <<"P", "R", "I", "N", "T", "R">>, <<"J", "U", "M", "P">>,
     <<"A", "D", "D">>, <<"A", "D", "D", "V">>, <<"D", "R", "A", "W">>,
     <<"B", "L", "I", "N", "K">>}

\* the token type of a mnemonic: its letters as one string
MnemonicType(command) ==
    CASE command = <<"L", "D", "I">> -> "LDI"
      [] command = <<"S", "T", "D", "O", "U", "T">> -> "STDOUT"
      [] command = <<"P", "R", "I", "N", "T", "R">> -> "PRINTR"
      [] command = <<"J", "U", "M", "P">> -> "JUMP"
      [] command = <<"A", "D", "D">> -> "ADD"
      [] command = <<"A", "D", "D", "V">> -> "ADDV"
      [] command = <<"D", "R", "A", "W">> -> "DRAW"
      [] command = <<"B", "L", "I", "N", "K">> -> "BLINK"

\* GetNextToken: the Lexer afterwards, the token and the error returned
RECURSIVE GetNextToken(_)
GetNextToken(l) ==
    LET c == l.CurrentChar
        Fail(l2, e) == [lex |-> l2, tok |-> NilToken, err |-> e]
        Ok(l2, t)   == [lex |-> l2, tok |-> t, err |-> NoError]
    IN
    IF c = NUL THEN Ok(l, TokenNew("EOF", 0))
    ELSE IF IsSpace(c) THEN GetNextToken(IgnoreWhiteSpace(l))
    ELSE IF ToLower(c) = "r" THEN
        LET r == RegisterIndex(l) IN
        IF r.err # NoError THEN Fail(r.lex, r.err)
        ELSE Ok(r.lex, TokenNew("REG", r.val))
    ELSE IF IsDigit(c) THEN
        LET r == Integer(l) IN
        IF r.err # NoError THEN Fail(r.lex, r.err)
        ELSE Ok(r.lex, TokenNew("INT", r.val))
    ELSE IF c = "," THEN Ok(GetNextChar(l), TokenNew("COMMA", 0))
    ELSE IF c = "$" THEN
        LET r == Shape(l) IN
        IF r.err # NoError THEN Fail(r.lex, r.err)
        ELSE IF r.str = <<"h", "e", "a", "r", "t">>
             THEN Ok(r.lex, TokenNew("SHAPE", 1))
        ELSE IF r.str = <<"b", "i", "r", "d">>
             THEN Ok(r.lex, TokenNew("SHAPE", 2))
        ELSE Fail(r.lex, ErrUnknownShape)
    ELSE IF IsLower(c) THEN Fail(l, ErrCase)
    ELSE IF IsPunct(c) \/ IsSymbol(c) THEN Fail(l, ErrInvalidChar)
    ELSE IF IsUpper(c) THEN
        LET r == Command(l) IN
        IF r.err # NoError THEN Fail(r.lex, r.err)
        ELSE IF r.str \in Mnemonics
             THEN Ok(r.lex, TokenNew(MnemonicType(r.str), 0))
        ELSE Fail(r.lex, ErrUndefined)
    ELSE Fail(l, ErrUnrecognized)

---------------------------------------------------------------------------
(* Bytecode instructions (instructions.go): the four variants behind the   *)
(* Instruction interface, and the nil interface value of an unused slot.   *)

OPCODE_STDOUT == 0
OPCODE_LDI    == 1
OPCODE_JUMP   == 2
OPCODE_ADD    == 23
OPCODE_ADDV   == 24
OPCODE_DRAW   == 25
OPCODE_BLINK  == 32
OPCODE_PRINTR == 33

\* the opcode constants of the parser package
parser_OPCODE_STDOUT == 0
parser_OPCODE_LDI    == 1
parser_OPCODE_JUMP   == 2
parser_OPCODE_ADD    == 23
parser_OPCODE_ADDV   == 24
parser_OPCODE_DRAW   == 25
parser_OPCODE_BLINK  == 32
parser_OPCODE_PRINTR == 33

NewBinaryInstruction(opcode, arg1, arg2) ==
    [variant |-> "Binary", OpCode |-> opcode, Arg1 |-> arg1, Arg2 |-> arg2]
NewUnaryInstruction(opcode, arg1) ==
    [variant |-> "Unary", OpCode |-> opcode, Arg1 |-> arg1]
NewNullaryInstruction(opcode) ==
    [variant |-> "Nullary", OpCode |-> opcode]
NewError(e) ==
    [variant |-> "Error", ErrorType |-> e]
NilInstruction == [variant |-> "nil"]

GetOpCode(instr) ==
    IF instr.variant = "Error" THEN 0 ELSE instr.OpCode
GetArg1(instr) ==
    IF instr.variant \in {"Binary", "Unary"} THEN instr.Arg1 ELSE 0
\* a GetArg2 that answers arg1 for the Unary variant; not the code's
GetArg2_UnaryArg1(instr) ==
    IF instr.variant \in {"Binary", "Unary"}
    THEN (IF instr.variant = "Binary" THEN instr.Arg2 ELSE instr.Arg1)
    ELSE 0

GetArg2(instr) ==
    IF instr.variant = "Binary" THEN instr.Arg2 ELSE 0

---------------------------------------------------------------------------
(* The parser (parser.go). *)

ErrUnexpected(tokenType) == "gvm: syntax error: unexpected " \o tokenType
ErrDefaultCase(tokenType) == "gvm: default case: invalid " \o tokenType

\* parser.New: the Parser and the error of the first GetNextToken
ParserNew(input) ==
    LET r == GetNextToken(LexerNew(input)) IN
    [p |-> [Lex |-> r.lex, CurrentToken |-> r.tok], err |-> r.err]

\* a Consume that reports a failed lookahead as a syntax error; not the
\* code's
Consume_Rewrap(p, expectedType) ==
    IF p.CurrentToken.TokenType # expectedType
    THEN [p |-> p, err |-> ErrUnexpected(p.CurrentToken.TokenType)]
    ELSE LET r == GetNextToken(p.Lex) IN
         [p |-> [Lex |-> r.lex, CurrentToken |-> r.tok],
          err |-> IF r.err # NoError THEN ErrUnexpected("EOF")
                  ELSE NoError]

\* a Consume that pulls the next token before it compares; not the code's
Consume_PullsFirst(p, expectedType) ==
    LET r == GetNextToken(p.Lex) IN
    IF p.CurrentToken.TokenType # expectedType
    THEN [p |-> [Lex |-> r.lex, CurrentToken |-> p.CurrentToken],
          err |-> ErrUnexpected(p.CurrentToken.TokenType)]
    ELSE [p |-> [Lex |-> r.lex, CurrentToken |-> r.tok], err |-> r.err]

Consume(p, expectedType) ==
    IF p.CurrentToken.TokenType # expectedType
    THEN [p |-> p, err |-> ErrUnexpected(p.CurrentToken.TokenType)]
    ELSE LET r == GetNextToken(p.Lex) IN
         [p |-> [Lex |-> r.lex, CurrentToken |-> r.tok], err |-> r.err]

\* Consume each type of a grammar rule in turn, stopping at the first
\* error; vals collects the Value of every token consumed
RECURSIVE ConsumeAll(_, _, _)
ConsumeRest(r, types, vals) ==
    IF r.err # NoError
    THEN [p |-> r.p, vals |-> vals, err |-> r.err]
    ELSE ConsumeAll(r.p, types, vals)

ConsumeAll(p, types, vals) ==
    IF types = <<>> THEN [p |-> p, vals |-> vals, err |-> NoError]
    ELSE ConsumeRest(Consume(p, Head(types)), Tail(types),
                     Append(vals, p.CurrentToken.Value))

\* the grammar rule Parser.Instruction follows for each leading token
\* type; <<>> is the default case
Grammar(tokenType) ==
    CASE tokenType = "JUMP"   -> <<"JUMP", "INT">>
      [] tokenType = "LDI"    -> <<"LDI", "REG", "COMMA", "INT">>
      [] tokenType = "ADD"    -> <<"ADD", "REG", "COMMA", "REG">>
      [] tokenType = "ADDV"   -> <<"ADDV", "REG", "COMMA", "REG">>
      [] tokenType = "DRAW"   -> <<"DRAW", "SHAPE">>
      [] tokenType = "BLINK"  -> <<"BLINK", "SHAPE">>
      [] tokenType = "STDOUT" -> <<"STDOUT", "REG">>
      [] tokenType = "PRINTR" -> <<"PRINTR">>
      [] OTHER                -> <<>>

\* an Encode that gives ADD the opcode of ADDV; not the code's
Encode_AddAsAddV(tokenType, vals) ==
    CASE tokenType = "JUMP"   ->
           NewUnaryInstruction(parser_OPCODE_JUMP, vals[2])
      [] tokenType = "LDI"    ->
           NewBinaryInstruction(parser_OPCODE_LDI, vals[2], vals[4])
      [] tokenType = "ADD"    ->
           NewBinaryInstruction(parser_OPCODE_ADDV, vals[2], vals[4])
      [] tokenType = "ADDV"   ->
           NewBinaryInstruction(parser_OPCODE_ADDV, vals[2], vals[4])
      [] tokenType = "DRAW"   ->
           NewUnaryInstruction(parser_OPCODE_DRAW, vals[2])
      [] tokenType = "BLINK"  ->
           NewUnaryInstruction(parser_OPCODE_BLINK, vals[2])
      [] tokenType = "STDOUT" ->
           NewUnaryInstruction(parser_OPCODE_STDOUT, vals[2])
      [] tokenType = "PRINTR" -> NewNullaryInstruction(parser_OPCODE_PRINTR)

\* the Instruction each case of Parser.Instruction returns on success,
\* from the Values of the tokens it consumed
Encode(tokenType, vals) ==
    CASE tokenType = "JUMP"   ->
           NewUnaryInstruction(parser_OPCODE_JUMP, vals[2])
      [] tokenType = "LDI"    ->
           NewBinaryInstruction(parser_OPCODE_LDI, vals[2], vals[4])
      [] tokenType = "ADD"    ->
           NewBinaryInstruction(parser_OPCODE_ADD, vals[2], vals[4])
      [] tokenType = "ADDV"   ->
           NewBinaryInstruction(parser_OPCODE_ADDV, vals[2], vals[4])
      [] tokenType = "DRAW"   ->
           NewUnaryInstruction(parser_OPCODE_DRAW, vals[2])
      [] tokenType = "BLINK"  ->
           NewUnaryInstruction(parser_OPCODE_BLINK, vals[2])
      [] tokenType = "STDOUT" ->
           NewUnaryInstruction(parser_OPCODE_STDOUT, vals[2])
      [] tokenType = "PRINTR" -> NewNullaryInstruction(parser_OPCODE_PRINTR)

\* a result with no Instruction on a failure; not the code's
InstructionResult_NilOnError(tokenType, r) ==
    IF r.err # NoError
    THEN [p |-> r.p, instr |-> NilInstruction, err |-> r.err]
    ELSE [p |-> r.p, instr |-> Encode(tokenType, r.vals), err |-> NoError]

InstructionResult(tokenType, r) ==
    IF r.err # NoError
    THEN [p |-> r.p, instr |-> NewError(r.err), err |-> r.err]
    ELSE [p |-> r.p, instr |-> Encode(tokenType, r.vals), err |-> NoError]

\* an Instruction that takes the end of the line for PRINTR; not the code's
Instruction_BlankIsPrintR(p) ==
    LET t == p.CurrentToken.TokenType IN
    IF t = "EOF"
    THEN [p |-> p, instr |-> NewNullaryInstruction(OPCODE_PRINTR),
          err |-> NoError]
    ELSE IF Grammar(t) = <<>>
    THEN [p |-> p, instr |-> NewError(ErrDefaultCase(t)),
          err |-> ErrDefaultCase(t)]
    ELSE InstructionResult(t, ConsumeAll(p, Grammar(t), <<>>))

\* an Instruction that wants the end of the line after the last token of
\* the rule; not the code's
Instruction_ExpectsEOF(p) ==
    LET t == p.CurrentToken.TokenType IN
    IF Grammar(t) = <<>>
    THEN [p |-> p, instr |-> NewError(ErrDefaultCase(t)),
          err |-> ErrDefaultCase(t)]
    ELSE LET r == InstructionResult(t, ConsumeAll(p, Grammar(t), <<>>))
             next == r.p.CurrentToken.TokenType
         IN  IF r.err = NoError /\ next # "EOF"
             THEN [p |-> r.p, instr |-> NewError(ErrUnexpected(next)),
                   err |-> ErrUnexpected(next)]
             ELSE r

\* Parser.Instruction: the Parser afterwards, the Instruction and the error
Instruction(p) ==
    LET t == p.CurrentToken.TokenType IN
    IF Grammar(t) = <<>>
    THEN [p |-> p, instr |-> NewError(ErrDefaultCase(t)),
          err |-> ErrDefaultCase(t)]
    ELSE InstructionResult(t, ConsumeAll(p, Grammar(t), <<>>))

---------------------------------------------------------------------------
(* The interpreter (interpreter.go).  An Interpreter value m holds PC and  *)
(* Registers, with out, the output written so far, and stores, the         *)
(* register indices stored into so far.  Each routine maps the Interpreter *)
(* it is called on to the one it leaves behind and the error it returns.   *)

NUM_REGISTERS == 10
INIT == 10

ErrReadOnly == "gvm: write to R0: permission denied [R0 is read-only]"
ErrInvalidRegister == "gvm: invalid register: R%d [use registers R0:R9]"
ErrInfiniteLoop == "gvm: JUMP at addr %d to %d: infinite loop warning."
ErrSegmentation == "gvm: JUMP addr invalid: segmentation violation."
ErrVisualAdd ==
    "gvm: ADDV instruction: please use values less than 10 for visual add mode"
ErrInvalidShape == "interpreter/interpreter.go: invalid shape id: %d"
ErrInvalidCommand == "interpreter/interpreter.go: invalid command %v"
PanicNegativeRepeat == "panic: strings: negative Repeat count"
PanicIndexOutOfRange == "panic: runtime error: index out of range"
ErrOpenFile == "gvm: vm.Execute: failed to open file: '%s'"

Panics == {PanicNegativeRepeat, PanicIndexOutOfRange}

TextOut(label, value) == [sink |-> "text", label |-> label, val |-> value]
ShapeOut(shape, blink) == [sink |-> "shape", shape |-> shape, blink |-> blink]
AddVOut(i, j, k) == [sink |-> "addv", i |-> i, j |-> j, k |-> k]
\* the operands AddV prints before it builds the rows of stars
AddVHead(i, j) == [sink |-> "addvhead", i |-> i, j |-> j]

\* a WriteTo without the read-only test on register 0; not the code's
WriteTo_Unprotected(m, register, value) ==
    IF register > 9
    THEN [m |-> m, err |-> ErrInvalidRegister]
    ELSE [m |-> [m EXCEPT !.Registers[register] = value,
                          !.stores = Append(@, register)],
          err |-> NoError]

WriteTo(m, register, value) ==
    IF register = 0
    THEN [m |-> m, err |-> ErrReadOnly]
    ELSE IF register > 9
    THEN [m |-> m, err |-> ErrInvalidRegister]
    ELSE [m |-> [m EXCEPT !.Registers[register] = value,
                          !.stores = Append(@, register)],
          err |-> NoError]

\* a ReadFrom that refuses register 0; not the code's
ReadFrom_R0Hidden(m, register) ==
    IF register > 9 \/ register = 0
    THEN [val |-> 0, err |-> ErrInvalidRegister]
    ELSE [val |-> m.Registers[register], err |-> NoError]

ReadFrom(m, register) ==
    IF register > 9
    THEN [val |-> 0, err |-> ErrInvalidRegister]
    ELSE [val |-> m.Registers[register], err |-> NoError]

\* a CheckJump that accepts a jump to the address in R0; not the code's
CheckJump_AllowEnd(m, addr) ==
    LET lastAddrRead == ReadFrom(m, 0).val IN
    IF addr <= m.PC THEN ErrInfiniteLoop
    ELSE IF addr > lastAddrRead THEN ErrSegmentation
    ELSE NoError

\* a CheckJump with no test against the PC; not the code's
CheckJump_Backward(m, addr) ==
    LET lastAddrRead == ReadFrom(m, 0).val IN
    IF addr > lastAddrRead - 1 THEN ErrSegmentation ELSE NoError

\* a CheckJump with no test against the address in R0; not the code's
CheckJump_NoCeiling(m, addr) ==
    IF addr <= m.PC THEN ErrInfiniteLoop ELSE NoError

CheckJump(m, addr) ==
    LET lastAddrRead == ReadFrom(m, 0).val IN
    IF addr <= m.PC THEN ErrInfiniteLoop
    ELSE IF addr > lastAddrRead - 1 THEN ErrSegmentation
    ELSE NoError

LoadImmediate(m, register, value) == WriteTo(m, register, value)

\* a JumpTo that stores the target before it looks at CheckJump's answer;
\* not the code's
JumpTo_AssignFirst(m, address) ==
    [m |-> [m EXCEPT !.PC = address - 1], err |-> CheckJump(m, address)]

\* a JumpTo that stores the target itself, before the PC++ of Interpret;
\* not the code's
JumpTo_NoAdjust(m, address) ==
    LET e == CheckJump(m, address) IN
    IF e # NoError THEN [m |-> m, err |-> e]
    ELSE [m |-> [m EXCEPT !.PC = address], err |-> NoError]

JumpTo(m, address) ==
    LET e == CheckJump(m, address) IN
    IF e # NoError THEN [m |-> m, err |-> e]
    ELSE [m |-> [m EXCEPT !.PC = address - 1], err |-> NoError]

\* Add drops the error WriteTo returns
Add(m, ri, rj) ==
    LET value1 == ReadFrom(m, ri)
        value2 == ReadFrom(m, rj)
    IN  IF value1.err # NoError THEN [m |-> m, err |-> value1.err]
        ELSE IF value2.err # NoError THEN [m |-> m, err |-> value2.err]
        ELSE LET result == AddInt32(value1.val, value2.val) IN
             [m |-> WriteTo(m, ri, result).m, err |-> NoError]

\* a PrintToStdOut that prints the register's index; not the code's
PrintToStdOut_Index(m, register) ==
    LET value == ReadFrom(m, register) IN
    IF value.err # NoError THEN [m |-> m, err |-> value.err]
    ELSE [m |-> [m EXCEPT !.out = Append(@, TextOut(-1, register))],
          err |-> NoError]

PrintToStdOut(m, register) ==
    LET value == ReadFrom(m, register) IN
    IF value.err # NoError THEN [m |-> m, err |-> value.err]
    ELSE [m |-> [m EXCEPT !.out = Append(@, TextOut(-1, value.val))],
          err |-> NoError]

\* the loop of PrintRegisters reads and prints R0..R9 in index order and
\* stops at the first read that fails
PrintRegisters(m) ==
    LET values == [i \in 1..10 |-> ReadFrom(m, i - 1)]
        failed == {i \in 1..10 : values[i].err # NoError}
        stop == IF failed = {} THEN 11
                ELSE CHOOSE i \in failed : \A j \in failed : i <= j
        printed == [i \in 1..(stop - 1) |-> TextOut(i - 1, values[i].val)]
    IN  [m |-> [m EXCEPT !.out = @ \o printed],
         err |-> IF failed = {} THEN NoError ELSE values[stop].err]

\* AddV drops the error WriteTo returns; strings.Repeat panics on a
\* negative count, after the register is written
AddV(m, ri, rj) ==
    LET value1 == ReadFrom(m, ri)
        value2 == ReadFrom(m, rj)
    IN  IF value1.err # NoError THEN [m |-> m, err |-> value1.err]
        ELSE IF value2.err # NoError THEN [m |-> m, err |-> value2.err]
        ELSE IF value1.val > 10 \/ value2.val > 10
        THEN [m |-> m, err |-> ErrVisualAdd]
        ELSE LET i == value1.val
                 j == value2.val
                 k == AddInt32(i, j)
                 m1 == WriteTo(m, ri, k).m
             IN  IF i < 0 \/ j < 0
                 THEN [m |-> [m1 EXCEPT !.out = Append(@, AddVHead(i, j))],
                       err |-> PanicNegativeRepeat]
                 ELSE [m |-> [m1 EXCEPT !.out = Append(@, AddVOut(i, j, k))],
                       err |-> NoError]

Draw(m, shape) ==
    IF shape \in {1, 2}
    THEN [m |-> [m EXCEPT !.out = Append(@, ShapeOut(shape, 0))],
          err |-> NoError]
    ELSE [m |-> m, err |-> ErrInvalidShape]

Blink(m, shape) ==
    IF shape \in {1, 2}
    THEN [m |-> [m EXCEPT !.out = Append(@, ShapeOut(shape, 1))],
          err |-> NoError]
    ELSE [m |-> m, err |-> ErrInvalidShape]

DecodeAndDispatch(m, instr) ==
    LET op == GetOpCode(instr) IN
    CASE op = OPCODE_LDI    -> LoadImmediate(m, GetArg1(instr), GetArg2(instr))
      [] op = OPCODE_JUMP   -> JumpTo(m, GetArg1(instr))
      [] op = OPCODE_ADD    -> Add(m, GetArg1(instr), GetArg2(instr))
      [] op = OPCODE_ADDV   -> AddV(m, GetArg1(instr), GetArg2(instr))
      [] op = OPCODE_DRAW   -> Draw(m, GetArg1(instr))
      [] op = OPCODE_BLINK  -> Blink(m, GetArg1(instr))
      [] op = OPCODE_STDOUT -> PrintToStdOut(m, GetArg1(instr))
      [] op = OPCODE_PRINTR -> PrintRegisters(m)
      [] OTHER              -> [m |-> m, err |-> ErrInvalidCommand]

---------------------------------------------------------------------------
(* Source lines and program files the orchestrator is run on. *)

Line_LDI_r1_1 ==
    <<"L", "D", "I", " ", "r", "1", ",", " ", "1">>
Line_LDI_r2_8 ==
    <<"L", "D", "I", " ", "r", "2", ",", "8">>
Line_ADD_r1_r2 ==
    <<"A", "D", "D", " ", "r", "1", ",", "r", "2">>
Line_STDOUT_r1 ==
    <<"S", "T", "D", "O", "U", "T", " ", "r", "1">>
Line_STDOUT_r0 ==
    <<"S", "T", "D", "O", "U", "T", " ", "r", "0">>
Line_PRINTR ==
    <<"P", "R", "I", "N", "T", "R">>
Line_JUMP_1 ==
    <<"J", "U", "M", "P", " ", "1">>
Line_JUMP_2 ==
    <<"J", "U", "M", "P", " ", "2">>
Line_JUMP_3 ==
    <<"J", "U", "M", "P", " ", "3">>
Line_LDI_r0_2 ==
    <<"L", "D", "I", " ", "r", "0", ",", " ", "2">>
Line_ADD_r0_r1 ==
    <<"A", "D", "D", " ", "r", "0", ",", "r", "1">>
Line_LDIr1_1 ==
    <<"L", "D", "I", "r", "1", ",", " ", "1">>
Line_LDI_r2__8 ==
    <<"L", "D", "I", " ", "r", "2", ",", ",", "8">>
Line_JUMP_4 ==
    <<"J", "U", "M", "P", " ", "4">>
Line_JUMP_5 ==
    <<"J", "U", "M", "P", " ", "5">>
Line_JUMP_10 ==
    <<"J", "U", "M", "P", " ", "1", "0">>
Line_ADDV_r0_r1 ==
    <<"A", "D", "D", "V", " ", "r", "0", ",", "r", "1">>
Line_LDI_r1_3 ==
    <<"L", "D", "I", " ", "r", "1", ",", " ", "3">>
Line_LDI_r4_9 ==
    <<"L", "D", "I", " ", "r", "4", ",", " ", "9">>
Line_LDI_r8_22 ==
    <<"L", "D", "I", " ", "r", "8", ",", " ", "2", "2">>
Line_LDI_r3_19 ==
    <<"L", "D", "I", " ", "r", "3", ",", " ", "1", "9">>
Line_ADDV_r1_r5 ==
    <<"A", "D", "D", "V", " ", "r", "1", ",", " ", "r", "5">>
Line_ADDV_r1_r2 ==
    <<"A", "D", "D", "V", " ", "r", "1", ",", " ", "r", "2">>
Line_LDI_r1_2 ==
    <<"L", "D", "I", " ", "r", "1", ",", " ", "2">>
Line_LDI_r2_2 ==
    <<"L", "D", "I", " ", "r", "2", ",", " ", "2">>
Line_LDI_r5_12 ==
    <<"L", "D", "I", " ", "r", "5", ",", " ", "1", "2">>
Line_STDOUT_r5 ==
    <<"S", "T", "D", "O", "U", "T", " ", "r", "5">>
Line_ADD_r5_r1 ==
    <<"A", "D", "D", " ", "r", "5", ",", " ", "r", "1">>
Line_LDI_r1_max ==
    <<"L", "D", "I", " ", "r", "1", ",", " ", "2", "1", "4", "7", "4", "8", "3", "6", "4", "7">>
Line_ADD_r1_r1 ==
    <<"A", "D", "D", " ", "r", "1", ",", "r", "1">>
Line_DRAW_bird ==
    <<"D", "R", "A", "W", " ", "$", "b", "i", "r", "d">>
Line_BLINK_heart ==
    <<"B", "L", "I", "N", "K", " ", "$", "h", "e", "a", "r", "t">>
Line_LDI_r6_ ==
    <<"L", "D", "I", " ", "r", "6", ",", " ">>

\* the lines the enumerated short programs are made of
Lines ==
    {Line_LDI_r1_1,
     Line_LDI_r2_8,
     Line_ADD_r1_r2,
     Line_STDOUT_r1,
     Line_STDOUT_r0,
     Line_PRINTR,
     Line_JUMP_1,
     Line_JUMP_2,
     Line_JUMP_3,
     Line_LDI_r0_2,
     Line_ADD_r0_r1,
     Line_LDIr1_1,
     Line_LDI_r2__8}

RECURSIVE ProgramsUpTo(_)
ProgramsUpTo(n) ==
    IF n = 0 THEN {<<>>}
    ELSE LET S == ProgramsUpTo(n - 1) IN
         S \cup {Append(f, l) : f \in S, l \in Lines}

ShortPrograms == ProgramsUpTo(MaxLines)

\* vm/testdata test0, test1, test2, test3, test4, test8, test10..test12
Test0  == <<Line_LDI_r1_1, Line_LDI_r2_8, Line_ADD_r1_r2, Line_STDOUT_r1>>
Test1  == <<Line_LDI_r1_1, Line_LDI_r2__8, Line_ADD_r1_r2, Line_STDOUT_r1>>
Test2  == <<Line_LDIr1_1, Line_LDI_r2_8, Line_ADD_r1_r2, Line_STDOUT_r1>>
Test3  == <<Line_LDI_r1_1, Line_LDI_r2_8, Line_ADD_r1_r2, Line_STDOUT_r0>>
Test4  == <<Line_LDI_r1_1, Line_LDI_r6_, Line_ADD_r1_r2, Line_STDOUT_r1>>
Test8  == <<Line_LDI_r1_1, Line_LDI_r0_2, Line_ADD_r1_r2, Line_STDOUT_r1>>
Test10 == <<Line_LDI_r1_1, Line_LDI_r2_8, Line_JUMP_4, Line_ADD_r1_r2,
            Line_STDOUT_r1>>
Test11 == <<Line_LDI_r1_1, Line_LDI_r2_8, Line_JUMP_1, Line_ADD_r1_r2,
            Line_STDOUT_r1>>
Test12 == <<Line_LDI_r1_1, Line_LDI_r2_8, Line_JUMP_5, Line_ADD_r1_r2,
            Line_STDOUT_r1>>
\* sun/README.md: write_permission, offpage (a JUMP 10 in a short program),
\* susan4, susan5 and susan6; a wrapping ADD; an ADDV into R0
WritePermission == <<Line_LDI_r5_12, Line_STDOUT_r5, Line_LDI_r0_2,
                     Line_ADD_r5_r1, Line_STDOUT_r5>>
OffPage == <<Line_LDI_r1_1, Line_STDOUT_r1, Line_LDI_r2_8, Line_JUMP_10,
             Line_ADD_r1_r2>>
Susan4 == <<Line_LDI_r1_2, Line_LDI_r2_2, Line_ADDV_r1_r2, Line_ADDV_r1_r2,
            Line_ADDV_r1_r2, Line_ADDV_r1_r2>>
Shapes == <<Line_BLINK_heart, Line_DRAW_bird, Line_PRINTR>>
Wrapping == <<Line_LDI_r1_max, Line_ADD_r1_r1, Line_STDOUT_r1,
              Line_ADDV_r1_r2>>
AddVToR0 == <<Line_LDI_r1_1, Line_ADDV_r0_r1, Line_STDOUT_r0>>
Susan3 == <<Line_LDI_r1_3, Line_LDI_r4_9, Line_LDI_r8_22, Line_LDI_r3_19,
            Line_LDI_r2_2, Line_PRINTR>>
Line_LDI_r8_4 ==
    <<"L", "D", "I", " ", "r", "8", ",", " ", "4">>
Line_LDI_r8_8 ==
    <<"L", "D", "I", " ", "r", "8", ",", " ", "8">>
Line_ADD_r1_r8 ==
    <<"A", "D", "D", " ", "r", "1", ",", "r", "8">>
Line_ADD_r1__r8 ==
    <<"A", "D", "D", " ", "r", "1", ",", " ", "r", "8">>
Susan2 == <<Line_LDI_r1_2, Line_STDOUT_r1, Line_LDI_r8_4, Line_JUMP_5,
            Line_ADD_r1_r8, Line_STDOUT_r1, Line_LDI_r8_8, Line_ADD_r1__r8,
            Line_STDOUT_r1>>
AddVOver == <<Line_LDI_r5_12, Line_LDI_r1_1, Line_ADDV_r1_r5,
              Line_STDOUT_r1>>

ScenarioPrograms ==
    {Test0, Test1, Test2, Test3, Test4, Test8, Test10, Test11, Test12,
     WritePermission, OffPage, Susan4, Shapes, Wrapping, AddVToR0,
     AddVOver, Susan3, Susan2}

\* programs around the INIT slots of the code block: n valid lines, then
\* nothing more or one more line
RECURSIVE Repeated(_, _)
Repeated(line, n) ==
    IF n = 0 THEN <<>> ELSE Append(Repeated(line, n - 1), line)

LongPrograms ==
    {Repeated(Line_LDI_r1_1, n) \o tail :
        n \in (INIT - 1)..(INIT + 1),
        tail \in {<<>>, <<Line_STDOUT_r1>>, <<Line_LDI_r2__8>>}}

\* lines whose first token is no mnemonic: an empty line, a line of
\* spaces, and lines that begin with a REG, a COMMA, an INT and a SHAPE
Line_Empty == <<>>
Line_Spaces == <<" ", " ">>
Line_r1_STDOUT ==
    <<" ", "r", "1", " ", "S", "T", "D", "O", "U", "T">>
Line_Comma_STDOUT == <<" ", ",", "S", "T", "D", "O", "U", "T">>
Line_4_JUMP == <<" ", "4", " ", "J", "U", "M", "P">>
Line_heart == <<" ", "$", "h", "e", "a", "r", "t">>

NonMnemonicLines ==
    {Line_Empty, Line_Spaces, Line_r1_STDOUT, Line_Comma_STDOUT,
     Line_4_JUMP, Line_heart}

\* the program p with line put in as its k-th line
InsertAt(p, k, line) ==
    SubSeq(p, 1, k - 1) \o <<line>> \o SubSeq(p, k, Len(p))

\* programs with one such line at any place
NonMnemonicPrograms ==
    UNION {{InsertAt(p, k, line) :
               k \in 1..(Len(p) + 1), line \in NonMnemonicLines} :
           p \in {Test0, Repeated(Line_LDI_r1_1, INIT)}}

\* programs with operands at and past the ends of their ranges
Line_LDI_r9_max ==
    <<"L", "D", "I", " ", "r", "9", ",", " ", "2", "1", "4", "7", "4", "8",
      "3", "6", "4", "7">>
Line_LDI_r1_over ==
    <<"L", "D", "I", " ", "r", "1", ",", " ", "2", "1", "4", "7", "4", "8",
      "3", "6", "4", "8">>
Line_STDOUT_r9 == <<"S", "T", "D", "O", "U", "T", " ", "r", "9">>
Line_STDOUT_r10 == <<"S", "T", "D", "O", "U", "T", " ", "r", "1", "0">>
Line_ADD_r1_r10 == <<"A", "D", "D", " ", "r", "1", ",", "r", "1", "0">>
Line_DRAW_star == <<"D", "R", "A", "W", " ", "$", "s", "t", "a", "r">>
Line_JUMP_max ==
    <<"J", "U", "M", "P", " ", "2", "1", "4", "7", "4", "8", "3", "6", "4",
      "7">>

RangePrograms ==
    {<<Line_LDI_r9_max, Line_BLINK_heart, Line_DRAW_bird, Line_STDOUT_r9>>,
     <<Line_LDI_r1_1, Line_STDOUT_r10>>,
     <<Line_LDI_r1_1, Line_ADD_r1_r10>>,
     <<Line_LDI_r1_1, Line_DRAW_star>>,
     <<Line_LDI_r1_over>>,
     <<Line_LDI_r1_1, Line_JUMP_max, Line_PRINTR>>}

Programs ==
    ShortPrograms \cup ScenarioPrograms \cup LongPrograms
    \cup NonMnemonicPrograms \cup RangePrograms

---------------------------------------------------------------------------
(* Lexer inputs: every line made of at most MaxPieces pieces. *)

Pieces ==
    {<<c>> : c \in Digits \cup {" ", ",", "r", "R", "D", "d", "\t", "-",
                              "$"}}
    \cup {<<"A", "D", "D">>, <<" ", "r">>, <<"1", "2">>,
          <<"P", "R", "I", "N", "T", "R">>,
          <<"2", "1", "4", "7", "4", "8", "3", "6", "4">>}

RECURSIVE InputsUpTo(_)
InputsUpTo(n) ==
    IF n = 0 THEN {<<>>}
    ELSE LET S == InputsUpTo(n - 1) IN
         S \cup {i \o piece : i \in S, piece \in Pieces}

LexInputs == InputsUpTo(MaxPieces)

---------------------------------------------------------------------------
(* The orchestrator (vm.go) running one program: Execute, with             *)
(* ParseInstructions and Interpret unfolded into their steps.              *)

IdleLexer == LexerNew(<<>>)

Init ==
    /\ file \in Programs
    /\ scanned = 0
    /\ Code = [i \in 0..(INIT - 1) |-> NilInstruction]
    /\ CodeSize = 0
    /\ Registers = [i \in 0..(NUM_REGISTERS - 1) |-> 0]
    /\ PC = 0
    /\ lastAddr = 0
    /\ pos = "open"
    /\ err = NoError
    /\ out = <<>>
    /\ trace = <<>>
    /\ r0Writes = 0
    /\ runs = <<>>
    /\ lex = IdleLexer /\ prevLex = IdleLexer
    /\ tok = NilToken /\ lexErr = NoError

\* Execute: os.Open succeeds or fails
OpenFile ==
    /\ pos = "open"
    /\ \E opened \in BOOLEAN :
          IF opened THEN pos' = "scan" /\ err' = err
          ELSE pos' = "returned" /\ err' = ErrOpenFile
    /\ UNCHANGED <<file, scanned, Code, CodeSize, Registers, PC, lastAddr,
                   out, trace, r0Writes>>
    /\ UNCHANGED <<lexVars, runs>>

\* ParseInstructions, on one line: parser.New, then parser.Instruction;
\* the bytecode instruction and the error the loop body sees
ParseSourceLine(sourceInstruction) ==
    LET parser == ParserNew(sourceInstruction) IN
    IF parser.err # NoError
    THEN [instr |-> NilInstruction, err |-> parser.err]
    ELSE LET byteCode == Instruction(parser.p) IN
         [instr |-> byteCode.instr, err |-> byteCode.err]

\* ParseInstructions: one iteration of the scanner loop
ParseLine ==
    /\ pos = "scan"
    /\ scanned < Len(file)
    /\ scanned' = scanned + 1
    /\ \E parsed \in {ParseSourceLine(file[scanned + 1])} :
       IF parsed.err # NoError
       THEN /\ err' = parsed.err /\ pos' = "returned"
            /\ UNCHANGED <<Code, CodeSize>>
       ELSE IF CodeSize > INIT - 1
       THEN /\ err' = PanicIndexOutOfRange /\ pos' = "panic"
            /\ UNCHANGED <<Code, CodeSize>>
       ELSE /\ Code' = [Code EXCEPT ![CodeSize] = parsed.instr]
            /\ CodeSize' = CodeSize + 1
            /\ UNCHANGED <<err, pos>>
    /\ UNCHANGED <<file, Registers, PC, lastAddr, out, trace, r0Writes>>
    /\ UNCHANGED <<lexVars, runs>>

\* ParseInstructions: the scanner has no more lines
ParseDone ==
    /\ pos = "scan"
    /\ scanned = Len(file)
    /\ pos' = "setR0"
    /\ UNCHANGED <<file, scanned, Code, CodeSize, Registers, PC, lastAddr,
                   err, out, trace, r0Writes>>
    /\ UNCHANGED <<lexVars, runs>>

\* Execute: write the last address of the code block to register 0
WriteLastAddr ==
    /\ pos = "setR0"
    /\ Registers' = [Registers EXCEPT ![0] = CodeSize]
    /\ r0Writes' = r0Writes + 1
    /\ pos' = "interpret"
    /\ UNCHANGED <<file, scanned, Code, CodeSize, PC, lastAddr, err, out,
                   trace>>
    /\ UNCHANGED <<lexVars, runs>>

\* the Interpreter as the routines see it
Machine == [PC |-> PC, Registers |-> Registers, out |-> out, stores |-> <<>>]

\* Interpret: lastAddr,_ := interp.ReadFrom(0)
InterpretBegin ==
    /\ pos = "interpret"
    /\ lastAddr' = ReadFrom(Machine, 0).val
    /\ pos' = "loop"
    /\ UNCHANGED <<file, scanned, Code, CodeSize, Registers, PC, err, out,
                   trace, r0Writes>>
    /\ UNCHANGED <<lexVars, runs>>

\* Interpret: the loop test holds and Code[PC] is decoded and dispatched
Dispatch ==
    /\ pos = "loop"
    /\ PC < lastAddr
    /\ LET r == DecodeAndDispatch(Machine, Code[PC]) IN
       /\ Registers' = r.m.Registers
       /\ PC' = r.m.PC
       /\ out' = r.m.out
       /\ r0Writes' = r0Writes + Len(SelectSeq(r.m.stores, LAMBDA i : i = 0))
       /\ trace' = Append(trace, [addr |-> PC, instr |-> Code[PC],
                                  regs |-> Registers, out |-> out,
                                  err |-> r.err])
       /\ IF r.err = NoError THEN pos' = "incr" /\ err' = err
          ELSE IF r.err \in Panics THEN pos' = "panic" /\ err' = r.err
          ELSE pos' = "returned" /\ err' = r.err
    /\ UNCHANGED <<file, scanned, Code, CodeSize, lastAddr>>
    /\ UNCHANGED <<lexVars, runs>>

\* Interpret: interp.PC++
Increment ==
    /\ pos = "incr"
    /\ PC' = PC + 1
    /\ pos' = "loop"
    /\ UNCHANGED <<file, scanned, Code, CodeSize, Registers, lastAddr, err,
                   out, trace, r0Writes>>
    /\ UNCHANGED <<lexVars, runs>>

\* an exit of the loop one address before R0; not the code's
Halt_OneEarly ==
    /\ pos = "loop"
    /\ ~(PC < lastAddr - 1)
    /\ pos' = "returned"
    /\ UNCHANGED <<file, scanned, Code, CodeSize, Registers, PC, lastAddr,
                   err, out, trace, r0Writes>>
    /\ UNCHANGED <<lexVars, runs>>

\* Interpret: the loop test fails and Interpret, then Execute, return nil
Halt ==
    /\ pos = "loop"
    /\ ~(PC < lastAddr)
    /\ pos' = "returned"
    /\ UNCHANGED <<file, scanned, Code, CodeSize, Registers, PC, lastAddr,
                   err, out, trace, r0Writes>>
    /\ UNCHANGED <<lexVars, runs>>

Next ==
    \/ OpenFile
    \/ ParseLine
    \/ ParseDone
    \/ WriteLastAddr
    \/ InterpretBegin
    \/ Dispatch
    \/ Increment
    \/ Halt

Spec == Init /\ [][Next]_vars

\* the steps of Interpret, one sequential loop: a step of it that can be
\* taken is taken
InterpretStep == InterpretBegin \/ Dispatch \/ Increment \/ Halt

LiveSpec == Spec /\ WF_vars(InterpretStep)

---------------------------------------------------------------------------
(* main: the prompt loop runs one program after another in one process,    *)
(* each on a VirtualMachine of its own.                                    *)

\* number of programs run in a row
MaxRuns == 3

NewVirtualMemory ==
    [Registers |-> [i \in 0..(NUM_REGISTERS - 1) |-> 0],
     Code |-> [i \in 0..(INIT - 1) |-> NilInstruction],
     CodeSize |-> 0]

\* a virtual memory handed on from the run before; not the code's
NewVirtualMachine_Reused ==
    [VMem |-> [Registers |-> Registers, Code |-> Code,
               CodeSize |-> CodeSize],
     PC |-> 0]

\* NewVirtualMachine and interpreter.New: the memory and the PC
NewVirtualMachine == [VMem |-> NewVirtualMemory, PC |-> 0]

MainPrograms == {Test0, Test2, WritePermission, OffPage, AddVToR0, Susan3}

MainInit ==
    /\ file \in MainPrograms
    /\ scanned = 0
    /\ Code = NewVirtualMemory.Code
    /\ CodeSize = NewVirtualMemory.CodeSize
    /\ Registers = NewVirtualMemory.Registers
    /\ PC = 0
    /\ lastAddr = 0
    /\ pos = "open"
    /\ err = NoError
    /\ out = <<>>
    /\ trace = <<>>
    /\ r0Writes = 0
    /\ runs = <<>>
    /\ lex = IdleLexer /\ prevLex = IdleLexer
    /\ tok = NilToken /\ lexErr = NoError

\* what main has seen of the run that has returned
RunRecord == [file |-> file, out |-> out, regs |-> Registers, err |-> err]

\* main: Execute has returned, its error is printed if any, and the next
\* `run file` command makes a VirtualMachine and calls Execute on it
RunNextProgram ==
    /\ pos = "returned"
    /\ Len(runs) < MaxRuns - 1
    /\ runs' = Append(runs, RunRecord)
    /\ \E vm \in {NewVirtualMachine} :
          /\ Code' = vm.VMem.Code
          /\ CodeSize' = vm.VMem.CodeSize
          /\ Registers' = vm.VMem.Registers
          /\ PC' = vm.PC
    /\ file' \in MainPrograms
    /\ scanned' = 0
    /\ lastAddr' = 0
    /\ pos' = "open"
    /\ err' = NoError
    /\ out' = <<>>
    /\ trace' = <<>>
    /\ r0Writes' = 0
    /\ UNCHANGED lexVars

MainNext ==
    \/ OpenFile
    \/ ParseLine
    \/ ParseDone
    \/ WriteLastAddr
    \/ InterpretBegin
    \/ Dispatch
    \/ Increment
    \/ Halt
    \/ RunNextProgram

MainSpec == MainInit /\ [][MainNext]_vars

---------------------------------------------------------------------------
(* The lexer on one line: GetNextToken called again and again. *)

LexInit ==
    /\ lex \in {LexerNew(input) : input \in LexInputs}
    /\ prevLex = lex
    /\ tok = NilToken
    /\ lexErr = NoError
    /\ file = <<>>
    /\ scanned = 0
    /\ Code = [i \in 0..(INIT - 1) |-> NilInstruction]
    /\ CodeSize = 0
    /\ Registers = [i \in 0..(NUM_REGISTERS - 1) |-> 0]
    /\ PC = 0
    /\ lastAddr = 0
    /\ pos = "idle"
    /\ err = NoError
    /\ out = <<>>
    /\ trace = <<>>
    /\ r0Writes = 0
    /\ runs = <<>>

CallGetNextToken ==
    /\ LET r == GetNextToken(lex) IN
       /\ lex' = r.lex
       /\ tok' = r.tok
       /\ lexErr' = r.err
    /\ prevLex' = lex
    /\ UNCHANGED vmVars

LexNext == CallGetNextToken

LexSpec == LexInit /\ [][LexNext]_vars

---------------------------------------------------------------------------
(* The lexer on words: a prefix, at most MaxWordPieces pieces of letters,  *)
(* shape markers and punctuation, and a suffix.                            *)

\* number of pieces a word is built from
MaxWordPieces == 2

WordPieces ==
    Mnemonics
    \cup {<<c>> : c \in {"$", "A", "D", "R", "a", "d", "v", "r", "s",
                         ".", "&", "-", "+"}}
    \cup {<<"A", "D">>, <<"D", "D">>, <<"L", "I", "D">>, <<"P", "E", "W">>,
          <<"h", "e", "a", "r", "t">>, <<"b", "i", "r", "d">>,
          <<"h", "e", "a", "r", "t", "b", "i", "r">>,
          <<"A", "B", "C", "D", "E", "F", "G", "H", "I", "J", "K", "L">>}

RECURSIVE WordsUpTo(_)
WordsUpTo(n) ==
    IF n = 0 THEN {<<>>}
    ELSE LET S == WordsUpTo(n - 1) IN
         S \cup {w \o piece : w \in S, piece \in WordPieces}

WordPrefixes == {<<>>, <<" ">>, <<",">>, <<"1">>, <<"D", "R", "A", "W">>}
WordSuffixes == {<<>>, <<" ", "1">>}

WordInputs ==
    {pre \o w \o suf :
        pre \in WordPrefixes, w \in WordsUpTo(MaxWordPieces),
        suf \in WordSuffixes}

WordInit ==
    /\ lex \in {LexerNew(input) : input \in WordInputs}
    /\ prevLex = lex
    /\ tok = NilToken
    /\ lexErr = NoError
    /\ file = <<>>
    /\ scanned = 0
    /\ Code = [i \in 0..(INIT - 1) |-> NilInstruction]
    /\ CodeSize = 0
    /\ Registers = [i \in 0..(NUM_REGISTERS - 1) |-> 0]
    /\ PC = 0
    /\ lastAddr = 0
    /\ pos = "idle"
    /\ err = NoError
    /\ out = <<>>
    /\ trace = <<>>
    /\ r0Writes = 0
    /\ runs = <<>>

WordNext == CallGetNextToken

WordSpec == WordInit /\ [][WordNext]_vars

---------------------------------------------------------------------------
(* The routines of the interpreter called one after another on the         *)
(* registers of a loaded program, with register indices up to one past     *)
(* the last and values at the ends of the int32 range.                     *)

\* number of routine calls in a row
MaxCalls == 2

RegIndices == {0, 1, 2, NUM_REGISTERS}
Values == {MinInt32, -1, 10, 11, MaxInt32}

\* one record per call: the routine, its arguments, the registers before
\* the call, the value and the error returned
Call(op, a, b, val, e) ==
    [op |-> op, a |-> a, b |-> b, regs |-> Registers, val |-> val,
     err |-> e]

RoutineInit ==
    /\ file = <<>>
    /\ scanned = 0
    /\ Code = [i \in 0..(INIT - 1) |-> NilInstruction]
    /\ CodeSize = 0
    /\ Registers \in {[i \in 0..(NUM_REGISTERS - 1) |->
                         IF i = 0 THEN n ELSE 0] : n \in {0, 3}}
    /\ PC = 0
    /\ lastAddr = Registers[0]
    /\ pos = "loop"
    /\ err = NoError
    /\ out = <<>>
    /\ trace = <<>>
    /\ r0Writes = 1
    /\ runs = <<>>
    /\ lex = IdleLexer /\ prevLex = IdleLexer
    /\ tok = NilToken /\ lexErr = NoError

\* what a routine call leaves behind
Returned(op, a, b, val, r) ==
    /\ Registers' = r.m.Registers
    /\ out' = r.m.out
    /\ trace' = Append(trace, Call(op, a, b, val, r.err))
    /\ pos' = IF r.err \in Panics THEN "panic" ELSE pos
    /\ UNCHANGED <<file, scanned, Code, CodeSize, PC, lastAddr, err,
                   r0Writes>>
    /\ UNCHANGED <<lexVars, runs>>

CallWriteTo ==
    /\ pos = "loop" /\ Len(trace) < MaxCalls
    /\ \E register \in RegIndices, value \in Values :
          \E r \in {WriteTo(Machine, register, value)} :
             Returned("WriteTo", register, value, 0, r)

CallReadFrom ==
    /\ pos = "loop" /\ Len(trace) < MaxCalls
    /\ \E register \in RegIndices :
          \E r \in {ReadFrom(Machine, register)} :
             Returned("ReadFrom", register, 0, r.val,
                      [m |-> Machine, err |-> r.err])

CallAdd ==
    /\ pos = "loop" /\ Len(trace) < MaxCalls
    /\ \E ri \in RegIndices, rj \in RegIndices :
          \E r \in {Add(Machine, ri, rj)} :
             Returned("Add", ri, rj, 0, r)

CallAddV ==
    /\ pos = "loop" /\ Len(trace) < MaxCalls
    /\ \E ri \in RegIndices, rj \in RegIndices :
          \E r \in {AddV(Machine, ri, rj)} :
             Returned("AddV", ri, rj, 0, r)

RoutineNext ==
    \/ CallWriteTo
    \/ CallReadFrom
    \/ CallAdd
    \/ CallAddV

RoutineSpec == RoutineInit /\ [][RoutineNext]_vars

---------------------------------------------------------------------------
(* Interpret on a code block built by hand, not by the parser: every       *)
(* variant of Instruction, with register indices, shape ids and opcodes    *)
(* inside and outside their ranges.                                        *)

\* number of instructions in a hand-built code block
MaxBlock == 2

OPCODE_UNDEFINED == 99

HandInstructions ==
    {NewBinaryInstruction(OPCODE_LDI, a[1], a[2]) :
        a \in {<<0, 3>>, <<1, 3>>, <<1, 11>>, <<NUM_REGISTERS, 3>>}}
    \cup {NewBinaryInstruction(op, a[1], a[2]) :
        op \in {OPCODE_ADD, OPCODE_ADDV},
        a \in {<<0, 1>>, <<1, 1>>, <<1, NUM_REGISTERS>>,
               <<NUM_REGISTERS, 1>>}}
    \cup {NewUnaryInstruction(OPCODE_JUMP, t) : t \in {0, 1, 2, 5}}
    \cup {NewUnaryInstruction(OPCODE_STDOUT, r) : r \in {1, NUM_REGISTERS}}
    \cup {NewUnaryInstruction(op, shape) :
        op \in {OPCODE_DRAW, OPCODE_BLINK}, shape \in {1, 3}}
    \cup {NewNullaryInstruction(OPCODE_PRINTR),
          NewNullaryInstruction(OPCODE_UNDEFINED),
          NewError(ErrUndefined)}

RECURSIVE BlocksUpTo(_)
BlocksUpTo(n) ==
    IF n = 0 THEN {<<>>}
    ELSE LET S == BlocksUpTo(n - 1) IN
         S \cup {Append(b, i) : b \in S, i \in HandInstructions}

\* interpreter.New on a memory whose code block holds the instructions of
\* block and whose R0 holds their number
DispatchInit ==
    /\ file = <<>>
    /\ scanned = 0
    /\ \E block \in BlocksUpTo(MaxBlock) \ {<<>>} :
          /\ Code = [i \in 0..(INIT - 1) |->
                        IF i < Len(block) THEN block[i + 1]
                        ELSE NilInstruction]
          /\ CodeSize = Len(block)
    /\ Registers = [i \in 0..(NUM_REGISTERS - 1) |->
                       IF i = 0 THEN CodeSize ELSE 0]
    /\ PC = 0
    /\ lastAddr = 0
    /\ pos = "interpret"
    /\ err = NoError
    /\ out = <<>>
    /\ trace = <<>>
    /\ r0Writes = 1
    /\ runs = <<>>
    /\ lex = IdleLexer /\ prevLex = IdleLexer
    /\ tok = NilToken /\ lexErr = NoError

DispatchSpec == DispatchInit /\ [][InterpretStep]_vars

---------------------------------------------------------------------------
(* The parser on one line: Execute on a file of one line, from the moment  *)
(* the file is open.  The lines are a mnemonic, or none, followed by at    *)
(* most MaxOperands pieces.                                                *)

\* number of pieces that follow the mnemonic of a parser input line
MaxOperands == 3

LineHeads == Mnemonics \cup {<<>>}

OperandPieces ==
    {<<" ", "r", "1">>, <<" ", "R", "2">>, <<",">>, <<" ", "3">>, <<" ">>,
     <<"$", "h", "e", "a", "r", "t">>, <<" ", "$", "b", "i", "r", "d">>,
     <<"r", "4">>, <<"7">>, <<"x">>}

RECURSIVE OperandsUpTo(_)
OperandsUpTo(n) ==
    IF n = 0 THEN {<<>>}
    ELSE LET S == OperandsUpTo(n - 1) IN
         S \cup {i \o piece : i \in S, piece \in OperandPieces}

ParseInputs ==
    {head \o operands : head \in LineHeads,
                        operands \in OperandsUpTo(MaxOperands)}

ParseInit ==
    /\ file \in {<<line>> : line \in ParseInputs}
    /\ scanned = 0
    /\ Code = [i \in 0..(INIT - 1) |-> NilInstruction]
    /\ CodeSize = 0
    /\ Registers = [i \in 0..(NUM_REGISTERS - 1) |-> 0]
    /\ PC = 0
    /\ lastAddr = 0
    /\ pos = "scan"
    /\ err = NoError
    /\ out = <<>>
    /\ trace = <<>>
    /\ r0Writes = 0
    /\ runs = <<>>
    /\ lex = IdleLexer /\ prevLex = IdleLexer
    /\ tok = NilToken /\ lexErr = NoError

ParseNext == ParseLine

ParseSpec == ParseInit /\ [][ParseNext]_vars

---------------------------------------------------------------------------
(* The Parser object: parser.New on a line, then Consume calls with any    *)
(* expected type, or one Instruction call.                                 *)

\* number of Consume calls on one Parser
MaxConsumes == 3

TokenTypes_All ==
    {"INT", "REG", "COMMA", "LDI", "STDOUT", "JUMP", "ADD", "ADDV", "DRAW",
     "BLINK", "SHAPE", "PRINTR", "EOF"}

\* lines with more tokens after the last token of the rule
Line_JUMP_4_5 == Line_JUMP_4 \o <<" ", "5">>
Line_STDOUT_r1_STDOUT == Line_STDOUT_r1 \o <<" ">> \o Line_STDOUT_r1
Line_PRINTR_r1 == Line_PRINTR \o <<" ", "r", "1">>
Line_LDI_r1_3_comma == <<"L", "D", "I", " ", "r", "1", ",", "3", " ", ",">>
Line_LDI_r1_3_x == <<"L", "D", "I", " ", "r", "1", ",", "3", " ", "x">>
Line_LDI_r1_3_comma_x ==
    <<"L", "D", "I", " ", "r", "1", ",", "3", " ", ",", "x">>

TrailingLines ==
    {Line_JUMP_4_5, Line_STDOUT_r1_STDOUT, Line_PRINTR_r1,
     Line_LDI_r1_3_comma, Line_LDI_r1_3_x, Line_LDI_r1_3_comma_x}

ParserInputs ==
    Lines \cup NonMnemonicLines \cup TrailingLines
    \cup {head \o operands :
            head \in LineHeads, operands \in OperandsUpTo(MaxOperands - 1)}

\* the Parser is lex and tok: its Lex and its CurrentToken
Parser == [Lex |-> lex, CurrentToken |-> tok]

ParserInit ==
    /\ file \in {<<line>> : line \in ParserInputs}
    /\ ParserNew(file[1]).err = NoError
    /\ lex = ParserNew(file[1]).p.Lex
    /\ tok = ParserNew(file[1]).p.CurrentToken
    /\ prevLex = lex
    /\ lexErr = NoError
    /\ scanned = 1
    /\ Code = [i \in 0..(INIT - 1) |-> NilInstruction]
    /\ CodeSize = 0
    /\ Registers = [i \in 0..(NUM_REGISTERS - 1) |-> 0]
    /\ PC = 0
    /\ lastAddr = 0
    /\ pos = "parse"
    /\ err = NoError
    /\ out = <<>>
    /\ trace = <<>>
    /\ r0Writes = 0
    /\ runs = <<>>

\* one record per call on the Parser: the routine, the expected type, the
\* Parser before the call, the Instruction and the error returned
ParserCall(op, expectedType, instr, e) ==
    [op |-> op, expected |-> expectedType, Lex |-> lex,
     CurrentToken |-> tok, instr |-> instr, err |-> e]

CallConsume ==
    /\ pos = "parse"
    /\ err = NoError
    /\ Len(trace) < MaxConsumes
    /\ \E expectedType \in TokenTypes_All :
          \E r \in {Consume(Parser, expectedType)} :
             /\ lex' = r.p.Lex
             /\ tok' = r.p.CurrentToken
             /\ err' = r.err
             /\ trace' = Append(trace, ParserCall("Consume", expectedType,
                                                   NilInstruction, r.err))
    /\ prevLex' = lex
    /\ UNCHANGED <<lexErr, file, scanned, Code, CodeSize, Registers, PC,
                   lastAddr, pos, out, r0Writes, runs>>

CallInstruction ==
    /\ pos = "parse"
    /\ trace = <<>>
    /\ \E r \in {Instruction(Parser)} :
          /\ lex' = r.p.Lex
          /\ tok' = r.p.CurrentToken
          /\ err' = r.err
          /\ trace' = <<ParserCall("Instruction", "", r.instr, r.err)>>
    /\ prevLex' = lex
    /\ pos' = "parsed"
    /\ UNCHANGED <<lexErr, file, scanned, Code, CodeSize, Registers, PC,
                   lastAddr, out, r0Writes, runs>>

ParserNext ==
    \/ CallConsume
    \/ CallInstruction

ParserSpec == ParserInit /\ [][ParserNext]_vars

---------------------------------------------------------------------------
(* Properties of the orchestrator and the interpreter, under Spec. *)

N == Len(file)

\* the position of Execute is somewhere inside Interpret
Interpreting == pos \in {"interpret", "loop", "incr"}

\* Execute has returned nil
ReturnedNil == pos = "returned" /\ err = NoError

IsJump(e) == GetOpCode(e.instr) = OPCODE_JUMP
IsStdout(e) == GetOpCode(e.instr) = OPCODE_STDOUT
IsPrintR(e) == GetOpCode(e.instr) = OPCODE_PRINTR
WritesToR0(e) ==
    /\ GetOpCode(e.instr) \in {OPCODE_LDI, OPCODE_ADD, OPCODE_ADDV}
    /\ GetArg1(e.instr) = 0

\* C1: a JUMP to T dispatched at address A with bound B = R0 = code length
\* fails with the infinite-loop error iff T <= A, fails with the
\* segmentation error iff T >= B, and otherwise succeeds, and then the
\* next instruction dispatched is the one at address T.
C1_JumpContract ==
    \A i \in 1..Len(trace) :
       LET e == trace[i]
           A == e.addr
           T == GetArg1(e.instr)
           B == e.regs[0]
       IN  IsJump(e) =>
             /\ B = N /\ B = CodeSize
             /\ (e.err = ErrInfiniteLoop) <=> (T <= A)
             /\ (e.err = ErrSegmentation) <=> (T >= B)
             /\ (~(T <= A) /\ ~(T >= B)) =>
                  /\ e.err = NoError
                  /\ i < Len(trace) =>
                       /\ trace[i + 1].addr = T
                       /\ trace[i + 1].instr = Code[T]
                  /\ i = Len(trace) =>
                       \/ pos = "incr" /\ PC = T - 1
                       \/ pos = "loop" /\ PC = T /\ PC < lastAddr

\* a JUMP that skipped at least one instruction, and the instruction at
\* its target dispatched next
C1_Witness ==
    \E i \in 1..Len(trace) :
       /\ IsJump(trace[i]) /\ trace[i].err = NoError
       /\ i < Len(trace)
       /\ trace[i + 1].addr = GetArg1(trace[i].instr)
       /\ trace[i + 1].addr > trace[i].addr + 1

\* C2: every dispatched instruction whose destination register is R0
\* (LDI r0,K; ADD r0,rj; ADDV r0,rj) fails with the read-only error, and
\* Execute returns that error.
C2_WriteToR0AlwaysFails ==
    \A i \in 1..Len(trace) :
       WritesToR0(trace[i]) =>
          /\ trace[i].err = ErrReadOnly
          /\ pos = "returned" /\ err = ErrReadOnly

\* C3: R0 is stored into at most once, by Execute, after every line is
\* parsed and before the first dispatch, with the number N of instructions;
\* in every state of the interpretation, and before every dispatch, R0 = N;
\* STDOUT r0 in the four-line program test3 prints 4.
C3_R0WrittenOnce ==
    /\ r0Writes <= 1
    /\ r0Writes = 0 => /\ ~Interpreting /\ trace = <<>>
                       /\ Registers[0] = 0
    /\ Interpreting => r0Writes = 1
    /\ r0Writes = 1 => /\ scanned = N /\ CodeSize = N
                       /\ Registers[0] = N
    /\ \A i \in 1..Len(trace) : trace[i].regs[0] = N
    /\ (file = Test3 /\ ReturnedNil) => out = <<TextOut(-1, 4)>>

\* an interpretation that dispatched an instruction with destination R0
\* and ran on
C3_Witness ==
    /\ \E i \in 1..Len(trace) :
          WritesToR0(trace[i]) /\ trace[i].err = NoError
    /\ pos = "returned" /\ N >= 2 /\ Registers[0] = N

\* the lines of the file that fail to lex or parse
BadLines == {i \in 1..N : ParseSourceLine(file[i]).err # NoError}
FirstBadLine == CHOOSE i \in BadLines : \A j \in BadLines : i <= j

\* Execute is over: it has returned or the process has panicked
Over == pos \in {"returned", "panic"}

\* C4: if a line of the opened file fails to lex or parse, Execute returns
\* the error of the first such line, and nothing is executed: no dispatch,
\* no output, R1..R9 are 0 and R0 is not set.
C4_BadLineAbortsLoad ==
    (BadLines # {} /\ err # ErrOpenFile) =>
       /\ trace = <<>> /\ out = <<>>
       /\ \A i \in 0..9 : Registers[i] = 0
       /\ r0Writes = 0
       /\ Over => /\ pos = "returned"
                  /\ err = ParseSourceLine(file[FirstBadLine]).err

\* C5: a program of N valid lines, whatever N, loads without failure:
\* instruction i of the code block is the encoding of line i and the
\* length written to R0 is N.
C5_CodeBlockGrows ==
    (BadLines = {} /\ err # ErrOpenFile) =>
       /\ err # PanicIndexOutOfRange
       /\ CodeSize = scanned
       /\ \A i \in 0..(CodeSize - 1) :
             Code[i] = ParseSourceLine(file[i + 1]).instr
       /\ r0Writes = 1 => Registers[0] = N

\* C6: when the instruction dispatched at address A fails, nothing is
\* dispatched afterwards, the error is returned to the caller of Execute,
\* and the registers and the output are those the instructions before A
\* left.
C6_RuntimeErrorStops ==
    \A i \in 1..Len(trace) :
       trace[i].err # NoError =>
          /\ i = Len(trace)
          /\ pos = "returned" /\ err = trace[i].err
          /\ PC = trace[i].addr
          /\ Registers = trace[i].regs
          /\ out = trace[i].out

\* C7: Interpret starts at PC = 0; while PC < R0 at the loop test the
\* instruction at PC is dispatched; Execute returns nil after interpreting
\* only with PC = R0 = code length.
C7_HaltsAtBound ==
    /\ pos = "interpret" => PC = 0
    /\ trace # <<>> => trace[1].addr = 0
    /\ Interpreting => /\ 0 <= PC /\ PC <= Registers[0]
    /\ (pos = "loop" /\ PC < Registers[0]) =>
          /\ ENABLED Dispatch
          /\ ~ENABLED Halt
          /\ Code[PC] = ParseSourceLine(file[PC + 1]).instr
    /\ (pos = "loop" /\ PC = Registers[0]) => ENABLED Halt
    /\ (ReturnedNil /\ r0Writes > 0) =>
          /\ PC = Registers[0] /\ Registers[0] = CodeSize /\ CodeSize = N
          /\ \A i \in 1..Len(trace) : trace[i].err = NoError

\* an interpretation of at least three instructions that has returned nil
C7_Witness ==
    /\ ReturnedNil /\ r0Writes > 0
    /\ PC = N /\ N >= 3 /\ Len(trace) >= 2

\* what a dispatched instruction writes to the text sink
TextOfEntry(e) ==
    IF e.err # NoError THEN <<>>
    ELSE IF IsStdout(e) THEN <<TextOut(-1, e.regs[GetArg1(e.instr)])>>
    ELSE IF IsPrintR(e) THEN [i \in 1..10 |-> TextOut(i - 1, e.regs[i - 1])]
    ELSE <<>>

RECURSIVE TextOfTrace(_)
TextOfTrace(t) ==
    IF t = <<>> THEN <<>> ELSE TextOfEntry(Head(t)) \o TextOfTrace(Tail(t))

TextSink == SelectSeq(out, LAMBDA o : o.sink = "text")

\* C8: the text sink holds exactly what the dispatched STDOUT and PRINTR
\* instructions emit, in dispatch order: STDOUT r the value of r at that
\* moment, PRINTR the values of R0..R9 in index order; the addresses
\* dispatched increase strictly, so a skipped instruction emits nothing;
\* test0 prints 9, and test10, with JUMP 4 before the ADD, prints 1.
C8_OutputInDispatchOrder ==
    /\ TextSink = TextOfTrace(trace)
    /\ \A i \in 1..(Len(trace) - 1) : trace[i].addr < trace[i + 1].addr
    /\ (file = Test0 /\ ReturnedNil) => out = <<TextOut(-1, 9)>>
    /\ (file = Test10 /\ ReturnedNil) =>
          /\ out = <<TextOut(-1, 1)>>
          /\ Registers[1] = 1
          /\ \A i \in 1..Len(trace) : trace[i].addr # 3

\* test10 has run to the end and printed
C8_Witness ==
    /\ file = Test10 /\ ReturnedNil /\ Len(out) = 1 /\ Len(trace) = 4

---------------------------------------------------------------------------
(* Properties of the lexer, under LexSpec. *)

\* GetNextToken has been called at least once
Called == tok # NilToken \/ lexErr # NoError

\* the first position at or after p that holds no white space
RECURSIVE SkipSpaces(_, _)
SkipSpaces(input, p) ==
    IF p < Len(input) /\ IsSpace(input[p + 1])
    THEN SkipSpaces(input, p + 1) ELSE p

\* the line, and the position at which the last call found its token
Line == prevLex.Input
Start == SkipSpaces(Line, prevLex.Position)
CharAt(p) == IF 0 <= p /\ p < Len(Line) THEN Line[p + 1] ELSE NUL

\* the last call found a register marker at Start
AtMarker == Called /\ CharAt(Start) \in {"r", "R"}

\* the digits that follow position p
RECURSIVE DigitRun(_)
DigitRun(p) ==
    IF CharAt(p) \in Digits THEN <<CharAt(p)>> \o DigitRun(p + 1) ELSE <<>>

\* the decimal value of a digit string, MaxInt32 standing for every value
\* above it
RECURSIVE Decimal(_)
Decimal(run) ==
    IF run = <<>> THEN 0
    ELSE LET front == Decimal(SubSeq(run, 1, Len(run) - 1))
             d == DigitValue(run[Len(run)])
         IN  IF front > (MaxInt32 - d) \div 10 THEN MaxInt32
             ELSE 10 * front + d

\* C9: a register marker r or R followed by the single digit d and
\* immediately preceded by a space or a comma lexes to the token REG d; a
\* marker preceded by any other character fails to lex; an index of 10 or
\* more fails to lex.
C9_RegisterToken ==
    AtMarker =>
       LET run == DigitRun(Start + 1)
           delimited == CharAt(Start - 1) \in {" ", ","}
       IN  /\ (delimited /\ Len(run) = 1) =>
                /\ lexErr = NoError
                /\ tok = TokenNew("REG", DigitValue(run[1]))
                /\ lex.Position = Start + 2
           /\ (Start > 0 /\ ~delimited) =>
                lexErr # NoError /\ tok = NilToken
           /\ (delimited /\ run # <<>> /\ Decimal(run) >= 10) =>
                lexErr # NoError /\ tok = NilToken

\* the token REG 9 lexed from R9 after a comma, by a call that is not the
\* first one on its line
C9_Witness ==
    /\ AtMarker /\ tok = TokenNew("REG", 9)
    /\ CharAt(Start) = "R" /\ CharAt(Start - 1) = ","
    /\ prevLex.Position > 0

\* C10, as claimed: a register marker that is the first character of the
\* line, followed by a single digit d, lexes to the token REG d.
C10_StartOfLineIsDelimiter ==
    (AtMarker /\ Start = 0 /\ Len(DigitRun(1)) = 1) =>
       /\ lexErr = NoError
       /\ tok = TokenNew("REG", DigitValue(CharAt(1)))

\* C10, amended: start-of-line is no delimiter: a register marker that is
\* the first character of the line fails to lex with the missing-delimiter
\* error, whatever follows it, and the cursor stays on the marker.
C10_StartOfLineIsNoDelimiter ==
    (AtMarker /\ Start = 0) =>
       /\ lexErr = ErrRegDelimiter
       /\ tok = NilToken
       /\ lex = prevLex

\* the line r1 has failed to lex
C10_Witness ==
    /\ AtMarker /\ Start = 0
    /\ Line = <<"r", "1">>
    /\ lexErr = ErrRegDelimiter

\* the marker at Start is immediately preceded by a space or a comma
Delimited == CharAt(Start - 1) \in {" ", ","}

\* C11: every register marker that is followed by a run of two or more
\* digits, whatever the digits are, fails to lex with the register range
\* error.
C11_TwoDigitsFail ==
    (AtMarker /\ Delimited /\ Len(DigitRun(Start + 1)) >= 2) =>
       /\ lexErr = ErrRegRange
       /\ tok = NilToken

\* a digit string without its leading zeros
RECURSIVE StripZeros(_)
StripZeros(run) ==
    IF run # <<>> /\ Head(run) = "0" THEN StripZeros(Tail(run)) ELSE run

\* digit strings of equal length, compared digit by digit
RECURSIVE DigitsLeq(_, _)
DigitsLeq(a, b) ==
    IF a = <<>> THEN TRUE
    ELSE IF DigitValue(Head(a)) < DigitValue(Head(b)) THEN TRUE
    ELSE IF DigitValue(Head(a)) > DigitValue(Head(b)) THEN FALSE
    ELSE DigitsLeq(Tail(a), Tail(b))

MaxInt32Digits == <<"2", "1", "4", "7", "4", "8", "3", "6", "4", "7">>
MinInt32Digits == <<"2", "1", "4", "7", "4", "8", "3", "6", "4", "8">>

\* the digit string denotes a value of at most the one limit denotes
AtMost(run, limit) ==
    LET s == StripZeros(run) IN
    \/ Len(s) < Len(limit)
    \/ Len(s) = Len(limit) /\ DigitsLeq(s, limit)

\* the last call found, after a space or a comma, a decimal literal: a
\* digit run, or a minus sign and a digit run
AtLiteral ==
    /\ Called /\ Delimited
    /\ \/ CharAt(Start) \in Digits
       \/ CharAt(Start) = "-" /\ CharAt(Start + 1) \in Digits
Negative == CharAt(Start) = "-"
LiteralDigits == IF Negative THEN DigitRun(Start + 1) ELSE DigitRun(Start)

\* C12, as claimed: every decimal literal in [-2147483648, 2147483647],
\* negative values included, that is preceded by a space or a comma lexes
\* to the token INT with exactly its value; every literal outside the
\* range fails to lex.
C12_SignedLiterals ==
    AtLiteral =>
       IF Negative
       THEN IF AtMost(LiteralDigits, MinInt32Digits)
            THEN /\ lexErr = NoError
                 /\ tok.TokenType = "INT"
                 /\ tok.Value + Decimal(LiteralDigits) = 0
            ELSE lexErr # NoError /\ tok = NilToken
       ELSE IF AtMost(LiteralDigits, MaxInt32Digits)
            THEN /\ lexErr = NoError
                 /\ tok = TokenNew("INT", Decimal(LiteralDigits))
            ELSE lexErr # NoError /\ tok = NilToken

\* C12, amended: the lexer has no negative literals.  A run of digits
\* after a space or a comma lexes to INT with exactly its value when the
\* value is at most 2147483647, and fails with the conversion error when
\* it is larger; a minus sign fails with the invalid-character error and
\* the cursor stays on it.
C12_UnsignedLiterals ==
    AtLiteral =>
       IF Negative
       THEN /\ lexErr = ErrInvalidChar
            /\ tok = NilToken
            /\ lex.Position = Start
       ELSE IF AtMost(LiteralDigits, MaxInt32Digits)
            THEN /\ lexErr = NoError
                 /\ tok = TokenNew("INT", Decimal(LiteralDigits))
                 /\ lex.Position = Start + Len(LiteralDigits)
            ELSE /\ lexErr = ErrConvert
                 /\ tok = NilToken

\* the literal 2147483647 has lexed to INT 2147483647
C12_Witness ==
    /\ AtLiteral /\ ~Negative
    /\ LiteralDigits = MaxInt32Digits
    /\ tok = TokenNew("INT", MaxInt32)

\* the lexer l becomes the lexer target by GetNextToken calls none of
\* which returns an error
RECURSIVE Reaches(_, _)
Reaches(l, target) ==
    IF l = target THEN TRUE
    ELSE LET r == GetNextToken(l) IN
         IF r.err # NoError \/ r.lex = l THEN FALSE
         ELSE Reaches(r.lex, target)

\* no call before the last one returned an error
NoErrorBefore == Reaches(LexerNew(Line), prevLex)

\* C13: a digit run that is not the index of a register marker and is not
\* immediately preceded by a space or a comma fails to lex with the
\* missing-delimiter error, at the start of the line and after a mnemonic
\* alike.
C13_DigitsNeedDelimiter ==
    (Called /\ NoErrorBefore /\ CharAt(Start) \in Digits /\ ~Delimited) =>
       /\ lexErr = ErrIntDelimiter
       /\ tok = NilToken

---------------------------------------------------------------------------
(* Properties of the parser, under ParseSpec. *)

\* the tokens GetNextToken returns from lexer l on, up to the end of the
\* input or to the first error, and that error
RECURSIVE TokensFrom(_)
TokensFrom(l) ==
    LET r == GetNextToken(l) IN
    IF r.err # NoError THEN [toks |-> <<>>, err |-> r.err]
    ELSE IF r.tok.TokenType = "EOF" THEN [toks |-> <<>>, err |-> NoError]
    ELSE LET rest == TokensFrom(r.lex) IN
         [toks |-> <<r.tok>> \o rest.toks, err |-> rest.err]

Tokenize(line) == TokensFrom(LexerNew(line))

TokenTypes(toks) == [i \in 1..Len(toks) |-> toks[i].TokenType]

\* the opcode the interpreter decodes for a mnemonic
OpCodeOf(tokenType) ==
    CASE tokenType = "STDOUT" -> OPCODE_STDOUT
      [] tokenType = "LDI"    -> OPCODE_LDI
      [] tokenType = "JUMP"   -> OPCODE_JUMP
      [] tokenType = "ADD"    -> OPCODE_ADD
      [] tokenType = "ADDV"   -> OPCODE_ADDV
      [] tokenType = "DRAW"   -> OPCODE_DRAW
      [] tokenType = "BLINK"  -> OPCODE_BLINK
      [] tokenType = "PRINTR" -> OPCODE_PRINTR

\* the operand tokens: those that are neither a mnemonic nor a comma
Operands(toks) ==
    SelectSeq(toks, LAMBDA t : t.TokenType \in {"REG", "INT", "SHAPE"})

\* the one line of the file, parsed or not, and accepted
TheLine == file[1]
Parsed == scanned = 1
Accepted == Parsed /\ err = NoError

\* C14: the parser accepts a line only if its tokens, left to right, are
\* a mnemonic followed by the operand kinds of its grammar, and the
\* Instruction of an accepted line has the opcode of the mnemonic, the
\* values of the first and second operand tokens as arg1 and arg2, and 0
\* for an absent argument.
C14_GrammarAndRoundTrip ==
    Accepted =>
       LET t == Tokenize(TheLine)
           ops == Operands(t.toks)
           instr == Code[0]
       IN  /\ t.err = NoError
           /\ t.toks # <<>>
           /\ TokenTypes(t.toks) = Grammar(t.toks[1].TokenType)
           /\ GetOpCode(instr) = OpCodeOf(t.toks[1].TokenType)
           /\ GetArg1(instr) = IF Len(ops) >= 1 THEN ops[1].Value ELSE 0
           /\ GetArg2(instr) = IF Len(ops) >= 2 THEN ops[2].Value ELSE 0

---------------------------------------------------------------------------
(* Lines that begin with no mnemonic, under Spec. *)

\* what the first GetNextToken call on a line returns
FirstToken(line) == GetNextToken(LexerNew(line))

\* the first token of the line lexes and is no mnemonic
NoMnemonic(line) ==
    /\ FirstToken(line).err = NoError
    /\ FirstToken(line).tok.TokenType
          \in {"REG", "INT", "COMMA", "SHAPE", "EOF"}

\* C15: a line whose first token is a REG, INT, COMMA or SHAPE token, or
\* EOF as for an empty line and a line of spaces, is rejected by
\* Parser.Instruction with the default-case error; such a line, wherever
\* it stands, ends the load: Execute returns that error, the lines after
\* it are not read, R0 is not set and nothing is dispatched.
C15_NoMnemonicAbortsLoad ==
    \A k \in 1..scanned :
       NoMnemonic(file[k]) =>
          /\ k = scanned
          /\ pos = "returned"
          /\ err = ErrDefaultCase(FirstToken(file[k]).tok.TokenType)
          /\ CodeSize = k - 1
          /\ trace = <<>> /\ out = <<>>
          /\ r0Writes = 0 /\ Registers[0] = 0

\* an empty line after four valid lines and before a fifth has ended the
\* load
C15_Witness ==
    /\ Len(file) > 5 /\ scanned = 5 /\ CodeSize = 4
    /\ file[5] = Line_Empty
    /\ pos = "returned" /\ err = ErrDefaultCase("EOF")

---------------------------------------------------------------------------
(* Properties of the register routines, under RoutineSpec. *)

\* the registers after the i-th call
RegsAfter(i) == IF i < Len(trace) THEN trace[i + 1].regs ELSE Registers

\* only register a differs between the register files f and g
SameBut(f, g, a) == \A j \in 0..(NUM_REGISTERS - 1) : j # a => f[j] = g[j]

\* C16: ReadFrom(i) fails with the invalid-register error iff i > 9 and
\* otherwise returns the stored value, also for register 0; WriteTo(i, v)
\* fails with the read-only error iff i = 0 and with the invalid-register
\* error iff i > 9, and otherwise stores v in register i and changes no
\* other register; a failing WriteTo changes no register.
C16_RegisterAccess ==
    \A i \in 1..Len(trace) :
       LET e == trace[i]
           after == RegsAfter(i)
       IN  /\ e.op = "ReadFrom" =>
                /\ (e.err = ErrInvalidRegister) <=> (e.a > 9)
                /\ e.a <= 9 => e.err = NoError /\ e.val = e.regs[e.a]
                /\ after = e.regs
           /\ e.op = "WriteTo" =>
                /\ (e.err = ErrReadOnly) <=> (e.a = 0)
                /\ (e.err = ErrInvalidRegister) <=> (e.a > 9)
                /\ (e.a >= 1 /\ e.a <= 9) =>
                      /\ e.err = NoError
                      /\ after[e.a] = e.b
                      /\ SameBut(after, e.regs, e.a)
                /\ e.err # NoError => after = e.regs

\* register 0 has been read, a register has been overwritten, and a store
\* into register 0 and one into register 10 have failed
C16_Witness ==
    /\ \E i \in 1..Len(trace) :
          /\ trace[i].op = "ReadFrom" /\ trace[i].a = 0 /\ trace[i].val = 3
    /\ \E i \in 1..Len(trace) :
          /\ trace[i].op = "WriteTo" /\ trace[i].a \in {0, 10}
          /\ trace[i].err # NoError

\* x + y wrapped into the int32 range, computed on 16-bit halves
Wrap32(x, y) ==
    LET lo == (x % 65536) + (y % 65536)
        hi == ((x \div 65536) + (y \div 65536) + (lo \div 65536)) % 65536
        signedHi == IF hi >= 32768 THEN hi - 65536 ELSE hi
    IN  signedHi * 65536 + (lo % 65536)

\* C17: Add(ri, rj) with ri in 1..9 and rj in 0..9 never fails; afterwards
\* register ri holds old ri + old rj wrapped into the int32 range, also
\* when ri = rj, and every other register is unchanged.
C17_AddWraps ==
    \A i \in 1..Len(trace) :
       LET e == trace[i]
           after == RegsAfter(i)
       IN  (e.op = "Add" /\ e.a \in 1..9 /\ e.b \in 0..9) =>
              /\ e.err = NoError
              /\ after[e.a] = Wrap32(e.regs[e.a], e.regs[e.b])
              /\ SameBut(after, e.regs, e.a)

\* 2147483647 has been doubled to -2
C17_Witness ==
    \E i \in 1..Len(trace) :
       /\ trace[i].op = "Add" /\ trace[i].a = trace[i].b
       /\ trace[i].a \in 1..9
       /\ trace[i].regs[trace[i].a] = MaxInt32
       /\ RegsAfter(i)[trace[i].a] = -2

---------------------------------------------------------------------------
(* ADDV in a program run, under Spec. *)

IsAddV(e) == GetOpCode(e.instr) = OPCODE_ADDV

\* the registers ADD ri, rj leaves when started on the registers regs
RegsOfAdd(regs, ri, rj) ==
    Add([PC |-> 0, Registers |-> regs, out |-> <<>>, stores |-> <<>>],
        ri, rj).m.Registers

\* C18: ADDV ri, rj fails with the range error iff the value of ri or of
\* rj is greater than 10, and then leaves every register unchanged; for
\* operand values of at most 10, of either sign, it completes without
\* failure and leaves the registers ADD ri, rj would leave.
C18_AddVContract ==
    \A i \in 1..Len(trace) :
       LET e == trace[i]
           x == e.regs[GetArg1(e.instr)]
           y == e.regs[GetArg2(e.instr)]
       IN  IsAddV(e) =>
              /\ (e.err = ErrVisualAdd) <=> (x > 10 \/ y > 10)
              /\ e.err = ErrVisualAdd => RegsAfter(i) = e.regs
              /\ (x <= 10 /\ y <= 10) =>
                    /\ e.err = NoError
                    /\ RegsAfter(i) =
                          RegsOfAdd(e.regs, GetArg1(e.instr),
                                    GetArg2(e.instr))

---------------------------------------------------------------------------
(* Lexer errors met by the parser, under ParseSpec. *)

\* the tokens of the line that lex, up to the first that does not
Lexed == Tokenize(TheLine)

\* the parser consumes the first n tokens of the line: they are the first
\* n token types of the grammar rule of the first
Consumes(toks, n) ==
    \/ n = 0
    \/ /\ n <= Len(Grammar(toks[1].TokenType))
       /\ \A i \in 1..n : toks[i].TokenType = Grammar(toks[1].TokenType)[i]

\* a token of the line fails to lex, and the parser pulls it: at
\* construction, or as the lookahead when it consumes the token before
LexFailurePulled ==
    /\ Lexed.err # NoError
    /\ Consumes(Lexed.toks, Len(Lexed.toks))

\* C19: the error of a GetNextToken call made by parser.New or by
\* Parser.Consume is what Parser.Instruction and then Execute return,
\* unchanged; parser.New fails iff the first token of the line fails to
\* lex.
C19_LexerErrorUnchanged ==
    Parsed =>
       /\ LexFailurePulled =>
             /\ err = Lexed.err
             /\ pos = "returned" /\ CodeSize = 0
       /\ (ParserNew(TheLine).err # NoError)
             <=> (Lexed.err # NoError /\ Lexed.toks = <<>>)
       /\ ParserNew(TheLine).err # NoError
             => ParserNew(TheLine).err = Lexed.err

\* the token after LDI, a register and a comma failed to lex, and Execute
\* returned the lexer's error
C19_Witness ==
    /\ Parsed /\ LexFailurePulled
    /\ Len(Lexed.toks) = 3
    /\ TokenTypes(Lexed.toks) = <<"LDI", "REG", "COMMA">>
    /\ pos = "returned" /\ err = Lexed.err

---------------------------------------------------------------------------
(* Spaces added to a line, under ParseSpec. *)

\* the line with one more space after its first k characters
InsertSpace(line, k) ==
    SubSeq(line, 1, k) \o <<" ">> \o SubSeq(line, k + 1, Len(line))

\* the places next to a space or a comma inside the line
Between(line) ==
    {k \in 1..(Len(line) - 1) :
        line[k] \in {" ", ","} \/ line[k + 1] \in {" ", ","}}

\* the line with one more space in front, at the end, or next to a space
\* or comma it already has
Spaced(line) ==
    {InsertSpace(line, k) : k \in {0, Len(line)} \cup Between(line)}

\* the spaced line lexes to the same tokens, or to the same tokens up to
\* the same error, and Execute accepts it iff it accepts the line
SameAs(line, spaced) ==
    /\ Tokenize(spaced) = Lexed
    /\ ParseSourceLine(spaced).err = NoError <=> err = NoError
    /\ err = NoError => ParseSourceLine(spaced).instr = Code[0]

\* no token lexed from the line stands for whitespace
NoSpaceToken ==
    \A i \in 1..Len(Lexed.toks) :
       Lexed.toks[i].TokenType
          \in {"INT", "REG", "COMMA", "LDI", "STDOUT", "JUMP", "ADD",
               "ADDV", "DRAW", "BLINK", "SHAPE", "PRINTR"}

LeadsWithOperand(line) ==
    line # <<>> /\ line[1] \in Digits \cup {"r", "R", "$"}

---------------------------------------------------------------------------
(* Words, shapes and characters outside the alphabet, under WordSpec. *)

\* the characters of the set S that follow position p
RECURSIVE RunOf(_, _)
RunOf(S, p) ==
    IF CharAt(p) \in S THEN <<CharAt(p)>> \o RunOf(S, p + 1) ELSE <<>>

Letters == UpperLetters \cup LowerLetters
LowerOf(word) == [i \in 1..Len(word) |-> ToLower(word[i])]

\* the last call found the first letter of a run of uppercase letters
AtUpperRun ==
    /\ Called
    /\ CharAt(Start) \in UpperLetters
    /\ CharAt(Start - 1) \notin UpperLetters

\* the last call found the first letter of a word that is a mnemonic but
\* for the case of some of its letters
AtMixedCase ==
    /\ Called
    /\ CharAt(Start) \in Letters
    /\ CharAt(Start - 1) \notin Letters
    /\ LowerOf(RunOf(Letters, Start)) \in {LowerOf(m) : m \in Mnemonics}
    /\ RunOf(Letters, Start) \notin Mnemonics

\* the word at Start does not lex: the call fails, or it returns a token
\* for a part of the word and the call after it fails
WordFails ==
    \/ lexErr # NoError /\ tok = NilToken
    \/ /\ lex.Position < Start + Len(RunOf(Letters, Start))
       /\ GetNextToken(lex).err # NoError

AtShape == Called /\ CharAt(Start) = "$"

Outsiders ==
    {"!", "#", "%", "&", "'", "(", ")", "*", "-", ".", "/", ":", ";", "?",
     "@", "[", "]", "_", "{", "}", "+", "<", "=", ">", "^", "|", "~"}

\* C23: a punctuation or symbol character other than the comma and the $
\* fails with the invalid-character error and a lowercase letter other
\* than r with the case error, the cursor staying on it; no call that
\* returns a token has passed over such a character, but for the letters
\* of a shape name.
C23_OutsideAlphabet ==
    Called =>
       /\ CharAt(Start) \in Outsiders =>
             /\ lexErr = ErrInvalidChar /\ tok = NilToken
             /\ lex.Position = Start
       /\ CharAt(Start) \in LowerLetters \ {"r"} =>
             /\ lexErr = ErrCase /\ tok = NilToken
             /\ lex.Position = Start
       /\ lexErr = NoError =>
             \A q \in Start..(lex.Position - 1) :
                /\ CharAt(q) \notin Outsiders
                /\ CharAt(q) \in LowerLetters =>
                      \/ q = Start /\ CharAt(q) = "r"
                            /\ tok.TokenType = "REG"
                      \/ q > Start /\ tok.TokenType = "SHAPE"

\* an & inside a line has failed with the invalid-character error
C23_Witness ==
    /\ Called /\ Start > 0 /\ CharAt(Start) = "&"
    /\ lexErr = ErrInvalidChar /\ lex.Position = Start

---------------------------------------------------------------------------
(* The susan3 example, under Spec. *)

\* C24: when PRINTR runs as the last instruction, at address 5, of the
\* six instructions of susan3, it reports 7 for R0, the loaded values for
\* R1, R2, R3, R4 and R8, and 0 for the registers not used.
C24_Susan3ReportsR0Is7 ==
    (file = Susan3 /\ ReturnedNil /\ r0Writes > 0) =>
       /\ Len(trace) = 6 /\ trace[6].addr = 5 /\ IsPrintR(trace[6])
       /\ out = [i \in 1..10 |->
                   TextOut(i - 1,
                           CASE i - 1 = 0 -> 7
                             [] i - 1 = 1 -> 3
                             [] i - 1 = 2 -> 2
                             [] i - 1 = 3 -> 19
                             [] i - 1 = 4 -> 9
                             [] i - 1 = 8 -> 22
                             [] OTHER -> 0)]

---------------------------------------------------------------------------
(* Programs run one after another, under MainSpec. *)

\* the runs that have returned, the last one included
Returns == IF pos = "returned" THEN Append(runs, RunRecord) ELSE runs

\* C25: every run starts on a machine with PC = 0, ten registers of 0
\* and an empty code block, and the output, the final registers and the
\* error of a run whose file could be opened are the same whenever the
\* same program is run, whatever was run before it.
C25_RunsIndependent ==
    /\ pos = "open" =>
          /\ PC = 0 /\ CodeSize = 0
          /\ \A i \in 0..(NUM_REGISTERS - 1) : Registers[i] = 0
          /\ \A i \in 0..(INIT - 1) : Code[i] = NilInstruction
    /\ \A i \in 1..Len(Returns) : \A j \in 1..Len(Returns) :
          /\ Returns[i].file = Returns[j].file
          /\ Returns[i].err # ErrOpenFile
          /\ Returns[j].err # ErrOpenFile
          => Returns[i] = Returns[j]

\* test0 has printed 9 a second time, after a run of another program that
\* ended with an error
C25_Witness ==
    /\ Len(runs) = 2 /\ pos = "returned"
    /\ file = Test0 /\ runs[1].file = Test0 /\ runs[2].file # Test0
    /\ runs[2].err \notin {NoError, ErrOpenFile}
    /\ out = <<TextOut(-1, 9)>> /\ err = NoError

---------------------------------------------------------------------------
(* Consume and Instruction, under ParserSpec. *)

\* what the n-th GetNextToken call on a new Lexer returns
RECURSIVE Pull(_, _)
Pull(l, n) ==
    IF n = 1 THEN GetNextToken(l) ELSE Pull(GetNextToken(l).lex, n - 1)

\* the Parser after the i-th call
ParserAfter(i) ==
    IF i < Len(trace)
    THEN [Lex |-> trace[i + 1].Lex, CurrentToken |-> trace[i + 1].CurrentToken]
    ELSE Parser

\* C26: Consume(expectedType) on a Parser whose current token has another
\* type returns the unexpected-type syntax error and leaves the current
\* token and the Lexer as they were; on a Parser whose current token has
\* that type it pulls exactly one token from the Lexer, so that after the
\* i-th such call the current token and the Lexer are those of the
\* (i+1)-th GetNextToken call on the line, and it returns the error of
\* that pull.
C26_ConsumeFrame ==
    \A i \in 1..Len(trace) :
       LET e == trace[i]
           after == ParserAfter(i)
       IN  e.op = "Consume" =>
              IF e.CurrentToken.TokenType # e.expected
              THEN /\ e.err = ErrUnexpected(e.CurrentToken.TokenType)
                   /\ after.Lex = e.Lex
                   /\ after.CurrentToken = e.CurrentToken
              ELSE LET pulled == Pull(LexerNew(file[1]), i + 1) IN
                   /\ e.err = pulled.err
                   /\ after.Lex = pulled.lex
                   /\ after.CurrentToken = pulled.tok

\* a Consume has failed on a type mismatch after another has pulled a
\* token
C26_Witness ==
    /\ Len(trace) = 2
    /\ trace[1].op = "Consume" /\ trace[1].err = NoError
    /\ trace[2].op = "Consume"
    /\ trace[2].CurrentToken.TokenType = "REG" /\ trace[2].expected = "INT"
    /\ err = ErrUnexpected("REG")

\* C27: Instruction returns an Error Instruction iff it returns an error;
\* the Error Instruction then carries that error, and with no error the
\* Instruction is a Nullary, Unary or Binary one.
C27_ErrorVariantIffError ==
    \A i \in 1..Len(trace) :
       LET e == trace[i] IN
       e.op = "Instruction" =>
          /\ (e.instr.variant = "Error") <=> (e.err # NoError)
          /\ e.err # NoError => e.instr = NewError(e.err)
          /\ e.err = NoError =>
                e.instr.variant \in {"Nullary", "Unary", "Binary"}

\* Instruction has failed on a lexer error after the comma of an LDI and
\* returned it in an Error Instruction
C27_Witness ==
    /\ pos = "parsed"
    /\ trace[1].CurrentToken.TokenType = "LDI"
    /\ trace[1].instr = NewError(ErrIntDelimiter)
    /\ err = ErrIntDelimiter

---------------------------------------------------------------------------
(* The end of the input, under LexSpec. *)

EOFToken == TokenNew("EOF", 0)

\* the line is empty or holds white space only
Blank(line) == \A i \in 1..Len(line) : IsSpace(line[i])

\* C28: the first GetNextToken call on an empty line or a line of white
\* space returns EOF and no error; EOF comes with no error and with the
\* cursor at the end of the line, and a call on a Lexer whose cursor is
\* at the end, as after an EOF, returns EOF and no error again and leaves
\* the Lexer as it was.
C28_EOFIsAToken ==
    Called =>
       /\ (prevLex.Position = 0 /\ Blank(Line)) =>
             tok = EOFToken /\ lexErr = NoError
       /\ tok = EOFToken =>
             /\ lexErr = NoError
             /\ lex.CurrentChar = NUL /\ lex.Position = Len(Line)
       /\ prevLex.CurrentChar = NUL =>
             /\ tok = EOFToken /\ lexErr = NoError
             /\ lex = prevLex

\* a call on a line of two white-space characters, made with the cursor
\* already at its end, has returned EOF again
C28_Witness ==
    /\ Called /\ Len(Line) = 2 /\ Blank(Line)
    /\ prevLex.Position = 2 /\ prevLex.CurrentChar = NUL
    /\ tok = EOFToken /\ lexErr = NoError /\ lex = prevLex

---------------------------------------------------------------------------
(* The effect of one dispatch, under Spec. *)

IsLdi(e) == GetOpCode(e.instr) = OPCODE_LDI
IsAdd(e) == GetOpCode(e.instr) = OPCODE_ADD
IsDraw(e) == GetOpCode(e.instr) = OPCODE_DRAW
IsBlink(e) == GetOpCode(e.instr) = OPCODE_BLINK

\* the PC++ that follows the i-th dispatch has been made
Incremented(i) == i < Len(trace) \/ pos # "incr"

\* the PC after the i-th dispatch and its PC++
PCAfter(i) == IF i < Len(trace) THEN trace[i + 1].addr ELSE PC

\* C29: after a dispatch that returned no error and the PC++ that follows
\* it, PC is the target for a JUMP and the address of the instruction
\* plus one for every other instruction; STDOUT, PRINTR, DRAW, BLINK and
\* JUMP leave the ten registers as they were, LDI rd,K leaves K in rd and
\* changes no other register, ADD and ADDV change no register but their
\* first operand; and the code block holds the loaded program, and nil
\* above it, in every state of the interpretation.
C29_DispatchEffect ==
    /\ \A i \in 1..Len(trace) :
          LET e == trace[i] IN
          e.err = NoError =>
             /\ Incremented(i) =>
                   PCAfter(i) = IF IsJump(e) THEN GetArg1(e.instr)
                                ELSE e.addr + 1
             /\ (IsStdout(e) \/ IsPrintR(e) \/ IsDraw(e) \/ IsBlink(e)
                                \/ IsJump(e)) => RegsAfter(i) = e.regs
             /\ IsLdi(e) =>
                   /\ RegsAfter(i)[GetArg1(e.instr)] = GetArg2(e.instr)
                   /\ SameBut(RegsAfter(i), e.regs, GetArg1(e.instr))
             /\ (IsAdd(e) \/ IsAddV(e)) =>
                   SameBut(RegsAfter(i), e.regs, GetArg1(e.instr))
    /\ (Interpreting \/ trace # <<>>) =>
          /\ \A a \in 0..(N - 1) :
                Code[a] = ParseSourceLine(file[a + 1]).instr
          /\ \A a \in N..(INIT - 1) : Code[a] = NilInstruction
          /\ \A i \in 1..Len(trace) : trace[i].instr = Code[trace[i].addr]

\* a JUMP over at least one instruction, an LDI and an ADD that each
\* changed a register, and a STDOUT, all dispatched without an error and
\* followed by their PC++
C29_Witness ==
    /\ \E i \in 1..Len(trace) :
          /\ IsJump(trace[i]) /\ trace[i].err = NoError /\ Incremented(i)
          /\ PCAfter(i) > trace[i].addr + 1
    /\ \E i \in 1..Len(trace) :
          /\ IsLdi(trace[i]) /\ trace[i].err = NoError
          /\ RegsAfter(i) # trace[i].regs
    /\ \E i \in 1..Len(trace) :
          /\ IsAdd(trace[i]) /\ trace[i].err = NoError
          /\ RegsAfter(i) # trace[i].regs
    /\ \E i \in 1..Len(trace) :
          /\ IsStdout(trace[i]) /\ trace[i].err = NoError /\ Incremented(i)

---------------------------------------------------------------------------
(* The range of the program counter, under Spec. *)

\* C30: in every state of an interpretation the PC is at least 0 and at
\* most R0, and R0 is the code size, the number of lines parsed, which
\* the INIT slots of the code block hold; every instruction fetched,
\* the one fetched after a successful JUMP included, was fetched with
\* R0 at that value from an address below it, and was an instruction
\* parsed from the file, not an empty slot.
C30_PCInsideProgram ==
    /\ Interpreting =>
          /\ 0 <= PC /\ PC <= Registers[0]
          /\ Registers[0] = CodeSize /\ CodeSize = N /\ N <= INIT
    /\ (pos = "loop" /\ ENABLED Dispatch) =>
          /\ PC < N /\ PC \in DOMAIN Code
          /\ Code[PC] # NilInstruction
    /\ \A i \in 1..Len(trace) :
          LET e == trace[i] IN
          /\ 0 <= e.addr /\ e.addr < N /\ e.addr < INIT
          /\ e.regs[0] = N
          /\ e.instr = ParseSourceLine(file[e.addr + 1]).instr
          /\ e.instr # NilInstruction
          /\ (i > 1 /\ IsJump(trace[i - 1]) /\ trace[i - 1].err = NoError) =>
                /\ e.addr = GetArg1(trace[i - 1].instr)
                /\ e.addr > trace[i - 1].addr

\* a JUMP to the last address of the program, and the instruction there
\* fetched and dispatched
C30_Witness ==
    \E i \in 2..Len(trace) :
       /\ IsJump(trace[i - 1]) /\ trace[i - 1].err = NoError
       /\ trace[i].addr = GetArg1(trace[i - 1].instr)
       /\ trace[i].addr = N - 1
       /\ trace[i].err = NoError

---------------------------------------------------------------------------
(* Termination of Interpret, under LiveSpec. *)

\* Interpret has ended: it returned, to Execute and the caller, or the
\* process stopped in a panic
Ended == pos \in {"returned", "panic"}

\* C31: the address of each dispatched instruction is above the address
\* of the one dispatched before it, so no address is dispatched twice and
\* a program of N instructions has at most N dispatches; and every
\* interpretation that begins ends, halted or on a failing instruction.
C31_Terminates ==
    /\ [](/\ \A i \in 2..Len(trace) : trace[i].addr > trace[i - 1].addr
          /\ \A i, j \in 1..Len(trace) :
                trace[i].addr = trace[j].addr => i = j
          /\ Len(trace) <= N
          /\ \A i \in 1..Len(trace) :
                i < Len(trace) => trace[i].err = NoError)
    /\ (pos = "interpret") ~> Ended

\* an interpretation with a JUMP over an instruction has halted after
\* fewer than N dispatches
C31_Witness ==
    /\ ReturnedNil /\ N >= 4
    /\ 2 <= Len(trace) /\ Len(trace) < N
    /\ \E i \in 1..Len(trace) : IsJump(trace[i])

---------------------------------------------------------------------------
(* Failing instructions, under DispatchSpec. *)

\* the i-th dispatch returned an error
Failed(i) == trace[i].err # NoError /\ trace[i].err \notin Panics

\* C32: a dispatch that returns an error is the last one, and it leaves
\* the ten registers and the PC as they were when the instruction was
\* fetched: Interpret returns that error with nothing written.
C32_FailureHasNoEffect ==
    \A i \in 1..Len(trace) :
       Failed(i) =>
          /\ i = Len(trace)
          /\ pos = "returned" /\ err = trace[i].err
          /\ Registers = trace[i].regs
          /\ PC = trace[i].addr

\* an instruction at address 1 has failed after the instruction before
\* it wrote a register
C32_Witness ==
    /\ Len(trace) = 2 /\ Failed(2)
    /\ trace[2].addr = 1
    /\ trace[2].regs # trace[1].regs
    /\ Registers = trace[2].regs

---------------------------------------------------------------------------
(* What follows the last token of a rule, under ParserSpec. *)

\* the line the Parser was made on, and the rule of its first token
TheInput == file[1]
Rule == Grammar(Pull(LexerNew(TheInput), 1).tok.TokenType)

\* the first tokens of the line lex and are those of the rule
RuleMatched ==
    /\ Rule # <<>>
    /\ \A i \in 1..Len(Rule) :
          /\ Pull(LexerNew(TheInput), i).err = NoError
          /\ Pull(LexerNew(TheInput), i).tok.TokenType = Rule[i]

\* the Values of the tokens of the rule
RuleValues ==
    [i \in 1..Len(Rule) |-> Pull(LexerNew(TheInput), i).tok.Value]

\* what the GetNextToken call after the last token of the rule returns
Further == Pull(LexerNew(TheInput), Len(Rule) + 1)

\* C33: when the first tokens of a line are those of a rule,
\* Parser.Instruction leaves the Parser with the Lexer and the token of
\* exactly one more GetNextToken call; when that call fails Instruction
\* returns its error, and when it returns a token, of whatever type and
\* with whatever after it, Instruction returns no error and the
\* instruction of the rule's tokens alone.
C33_LookaheadUnchecked ==
    (pos = "parsed" /\ RuleMatched) =>
       /\ lex = Further.lex /\ tok = Further.tok
       /\ Further.err # NoError =>
             /\ err = Further.err
             /\ trace[1].instr = NewError(Further.err)
       /\ Further.err = NoError =>
             /\ err = NoError
             /\ trace[1].instr = Encode(Rule[1], RuleValues)

\* `LDI r1,3 ,x` has been accepted as LDI r1,3: the token after the rule
\* is a comma, and what follows it does not lex and was never read
C33_Witness ==
    /\ pos = "parsed" /\ RuleMatched
    /\ TheInput = Line_LDI_r1_3_comma_x
    /\ err = NoError
    /\ trace[1].instr = NewBinaryInstruction(OPCODE_LDI, 1, 3)
    /\ tok.TokenType = "COMMA"
    /\ GetNextToken(lex).err # NoError

---------------------------------------------------------------------------
(* The instructions of a loaded program, under Spec. *)

IsRegisterIndex(v) == v >= 0 /\ v <= NUM_REGISTERS - 1
IsLiteral(v) == v >= 0 /\ v <= MaxInt32

\* the instruction is one Parser.Instruction builds from tokens in range
WellFormed(instr) ==
    /\ instr.variant \in {"Binary", "Unary", "Nullary"}
    /\ CASE instr.OpCode = OPCODE_LDI ->
              /\ instr.variant = "Binary"
              /\ IsRegisterIndex(instr.Arg1) /\ IsLiteral(instr.Arg2)
         [] instr.OpCode \in {OPCODE_ADD, OPCODE_ADDV} ->
              /\ instr.variant = "Binary"
              /\ IsRegisterIndex(instr.Arg1) /\ IsRegisterIndex(instr.Arg2)
         [] instr.OpCode = OPCODE_JUMP ->
              instr.variant = "Unary" /\ IsLiteral(instr.Arg1)
         [] instr.OpCode = OPCODE_STDOUT ->
              instr.variant = "Unary" /\ IsRegisterIndex(instr.Arg1)
         [] instr.OpCode \in {OPCODE_DRAW, OPCODE_BLINK} ->
              instr.variant = "Unary" /\ instr.Arg1 \in {1, 2}
         [] instr.OpCode = OPCODE_PRINTR -> instr.variant = "Nullary"
         [] OTHER -> FALSE

\* C34: every slot of the code block below CodeSize holds a well-formed
\* instruction: not the Error variant, one of the eight opcodes, register
\* operands in 0..9, shape operands 1 or 2, literals and jump targets in
\* 0..2147483647; the slots from CodeSize on are empty; and no dispatch
\* returns the invalid-register, invalid-shape or invalid-command error.
C34_CodeBlockWellFormed ==
    /\ \A a \in 0..(INIT - 1) :
          IF a < CodeSize THEN WellFormed(Code[a])
          ELSE Code[a] = NilInstruction
    /\ \A i \in 1..Len(trace) :
          /\ WellFormed(trace[i].instr)
          /\ trace[i].err \notin {ErrInvalidRegister, ErrInvalidShape,
                                  ErrInvalidCommand}

\* a program with r9, the largest literal and both shapes has been
\* loaded and run to its end
C34_Witness ==
    /\ ReturnedNil /\ CodeSize = 4 /\ Len(trace) = 4
    /\ Code[0] = NewBinaryInstruction(OPCODE_LDI, 9, MaxInt32)
    /\ Code[1] = NewUnaryInstruction(OPCODE_BLINK, 1)
    /\ Code[2] = NewUnaryInstruction(OPCODE_DRAW, 2)
    /\ Registers[9] = MaxInt32

---------------------------------------------------------------------------
(* The opcodes of the parser and of the interpreter, under Spec. *)

\* the rule of the first token of a line, and the Values of its tokens
LineRule(line) == Grammar(Pull(LexerNew(line), 1).tok.TokenType)
LineValues(line) ==
    [i \in 1..Len(LineRule(line)) |-> Pull(LexerNew(line), i).tok.Value]

\* the routine of a mnemonic, called on Interpreter m with the operand
\* Values v of the line
Routine(mnemonic, m, v) ==
    CASE mnemonic = "LDI"    -> LoadImmediate(m, v[2], v[4])
      [] mnemonic = "JUMP"   -> JumpTo(m, v[2])
      [] mnemonic = "ADD"    -> Add(m, v[2], v[4])
      [] mnemonic = "ADDV"   -> AddV(m, v[2], v[4])
      [] mnemonic = "DRAW"   -> Draw(m, v[2])
      [] mnemonic = "BLINK"  -> Blink(m, v[2])
      [] mnemonic = "STDOUT" -> PrintToStdOut(m, v[2])
      [] mnemonic = "PRINTR" -> PrintRegisters(m)

\* the output after the i-th dispatch
OutAfter(i) == IF i < Len(trace) THEN trace[i + 1].out ELSE out

\* the accessors of two Instructions answer alike
SameAccessors(x, y) ==
    /\ GetOpCode(x) = GetOpCode(y)
    /\ GetArg1(x) = GetArg1(y)
    /\ GetArg2(x) = GetArg2(y)

\* C35: the opcode constants of the parser are those of the interpreter,
\* mnemonic by mnemonic, and the eight are distinct; every dispatch of
\* an instruction parsed from a line does what the routine of the line's
\* mnemonic does on the line's operands, in their order: same error,
\* registers, output and PC; and the Error variant answers its accessors
\* as STDOUT r0 does and is dispatched as STDOUT r0 is.
C35_OpcodesAgree ==
    /\ parser_OPCODE_STDOUT = OPCODE_STDOUT
    /\ parser_OPCODE_LDI = OPCODE_LDI
    /\ parser_OPCODE_JUMP = OPCODE_JUMP
    /\ parser_OPCODE_ADD = OPCODE_ADD
    /\ parser_OPCODE_ADDV = OPCODE_ADDV
    /\ parser_OPCODE_DRAW = OPCODE_DRAW
    /\ parser_OPCODE_BLINK = OPCODE_BLINK
    /\ parser_OPCODE_PRINTR = OPCODE_PRINTR
    /\ Cardinality({OPCODE_STDOUT, OPCODE_LDI, OPCODE_JUMP, OPCODE_ADD,
                    OPCODE_ADDV, OPCODE_DRAW, OPCODE_BLINK,
                    OPCODE_PRINTR}) = 8
    /\ \A i \in 1..Len(trace) :
          LET e == trace[i]
              line == file[e.addr + 1]
              m == [PC |-> e.addr, Registers |-> e.regs, out |-> e.out,
                    stores |-> <<>>]
              r == Routine(LineRule(line)[1], m, LineValues(line))
          IN  /\ e.err = r.err
              /\ RegsAfter(i) = r.m.Registers
              /\ OutAfter(i) = r.m.out
              /\ (e.err = NoError /\ Incremented(i)) =>
                    PCAfter(i) = r.m.PC + 1
    /\ LET x == NewError(err)
           stdoutR0 == NewUnaryInstruction(parser_OPCODE_STDOUT, 0)
       IN  /\ GetOpCode(x) = 0 /\ GetOpCode(x) = OPCODE_STDOUT
           /\ SameAccessors(x, stdoutR0)
           /\ DecodeAndDispatch(Machine, x)
                 = DecodeAndDispatch(Machine, stdoutR0)
           /\ DecodeAndDispatch(Machine, x) = PrintToStdOut(Machine, 0)

\* a run that dispatched instructions of four mnemonics or more has
\* returned nil
C35_Witness ==
    /\ ReturnedNil
    /\ Cardinality({GetOpCode(trace[i].instr) : i \in 1..Len(trace)}) >= 4

---------------------------------------------------------------------------
(* The cursor of the Lexer, under LexSpec. *)

\* the Position of Lexer l is inside its Input or at its end, and its
\* CurrentChar is the character there, or the sentinel at the end
CursorOk(l) ==
    /\ 0 <= l.Position /\ l.Position <= Len(l.Input)
    /\ l.CurrentChar = IF l.Position < Len(l.Input)
                       THEN l.Input[l.Position + 1] ELSE NUL

\* C36: before and after every GetNextToken call the Position is between
\* 0 and the length of the Input and the CurrentChar is the character at
\* the Position, or the sentinel when the Position is the length; a call
\* returns, with a token or with an error, never moves the Position back
\* and keeps the Input; and a call that returns a token other than EOF
\* has moved the Position forward by at least one.
C36_CursorInvariant ==
    /\ CursorOk(lex)
    /\ Called =>
          /\ CursorOk(prevLex)
          /\ lex.Input = prevLex.Input
          /\ lex.Position >= prevLex.Position
          /\ (lexErr = NoError) <=> (tok # NilToken)
          /\ (lexErr = NoError /\ tok.TokenType # "EOF") =>
                lex.Position > prevLex.Position

\* a call made in the middle of a line, with the cursor on white space,
\* has returned a register token and moved the cursor by three characters
C36_Witness ==
    /\ Called /\ lexErr = NoError /\ tok.TokenType = "REG"
    /\ prevLex.Position > 0
    /\ IsSpace(prevLex.CurrentChar)
    /\ lex.Position = prevLex.Position + 3
    /\ CursorOk(lex)

---------------------------------------------------------------------------
(* White space that is no delimiter, under LexSpec. *)

\* the character before the token the last call found
Before == CharAt(Start - 1)

DelimiterErrors == {ErrRegDelimiter, ErrIntDelimiter, ErrShapeDelimiter}

\* C37: a call that finds a register marker, a digit or a shape marker
\* right after a tab, a newline or a carriage return has skipped that
\* white space and fails with the missing-delimiter error of the token,
\* leaving the cursor on the token's first character; and a call that
\* finds a register marker or a shape marker, or a digit not right after
\* an r or R, passes the delimiter test only right after a space or a
\* comma.
C37_OnlySpaceAndComma ==
    Called =>
       /\ (Start > 0 /\ Before \in {"\t", "\n", "\r"}) =>
             /\ CharAt(Start) \in {"r", "R"} =>
                   lexErr = ErrRegDelimiter /\ lex.Position = Start
             /\ IsDigit(CharAt(Start)) =>
                   lexErr = ErrIntDelimiter /\ lex.Position = Start
             /\ CharAt(Start) = "$" =>
                   lexErr = ErrShapeDelimiter /\ lex.Position = Start
       /\ \/ CharAt(Start) \in {"r", "R", "$"}
          \/ IsDigit(CharAt(Start)) /\ Before \notin {"r", "R"}
          => ((lexErr \notin DelimiterErrors) <=> (Before \in {" ", ","}))

\* the second call on a line like `ADD<TAB>r` has skipped the tab and
\* failed on the register marker
C37_Witness ==
    /\ Called /\ prevLex.Position > 0
    /\ prevLex.Position < Start
    /\ Before = "\t" /\ CharAt(Start) = "r"
    /\ lexErr = ErrRegDelimiter /\ lex.Position = Start

---------------------------------------------------------------------------
(* The accessors of the Instruction variants, under DispatchSpec. *)

\* opcodes and arguments the constructors are tried on
AccessorOpCodes ==
    {OPCODE_STDOUT, OPCODE_LDI, OPCODE_JUMP, OPCODE_ADD, OPCODE_ADDV,
     OPCODE_DRAW, OPCODE_BLINK, OPCODE_PRINTR, OPCODE_UNDEFINED}

\* the three accessors of x answer o, a and b
Answers(x, o, a, b) ==
    GetOpCode(x) = o /\ GetArg1(x) = a /\ GetArg2(x) = b

\* C38: a Binary instruction answers the opcode and the two arguments it
\* was built with, a Unary one its opcode, its arg1 and 0, a Nullary one
\* its opcode, 0 and 0, and an Error 0, 0 and 0, for every opcode and
\* every int32 argument tried; every instruction in the code block
\* answers by its variant in this way, and an instruction that was
\* dispatched is still the one in its slot, with the same answers.
C38_UniformAccessors ==
    /\ \A o \in AccessorOpCodes, a \in Values :
          /\ \A b \in Values :
                Answers(NewBinaryInstruction(o, a, b), o, a, b)
          /\ Answers(NewUnaryInstruction(o, a), o, a, 0)
          /\ Answers(NewNullaryInstruction(o), o, 0, 0)
    /\ Answers(NewError(err), 0, 0, 0)
    /\ \A k \in 0..(CodeSize - 1) :
          LET x == Code[k] IN
          CASE x.variant = "Binary" ->
                 x = NewBinaryInstruction(GetOpCode(x), GetArg1(x),
                                          GetArg2(x))
            [] x.variant = "Unary" ->
                 /\ x = NewUnaryInstruction(GetOpCode(x), GetArg1(x))
                 /\ GetArg2(x) = 0
            [] x.variant = "Nullary" ->
                 /\ x = NewNullaryInstruction(GetOpCode(x))
                 /\ GetArg1(x) = 0 /\ GetArg2(x) = 0
            [] x.variant = "Error" -> Answers(x, 0, 0, 0)
    /\ \A i \in 1..Len(trace) :
          /\ Code[trace[i].addr] = trace[i].instr
          /\ SameAccessors(Code[trace[i].addr], trace[i].instr)

\* an Error and then a Unary instruction have been dispatched from a
\* code block built by hand
C38_Witness ==
    /\ Len(trace) = 2
    /\ trace[1].instr.variant = "Error"
    /\ trace[2].instr.variant = "Unary"
    /\ GetArg1(trace[2].instr) # 0 /\ GetArg2(trace[2].instr) = 0

=============================================================================
